---- MODULE Spec2Model ----
(***************************************************************************)
(* Model of the digit-to-word matching engine of do-re-major-mnemonics:    *)
(* the digit splitter (src/lib/digitSplitter.ts), the result diversifier   *)
(* and the word-list matcher (src/hooks/useMnemonicMatcher.ts), the        *)
(* segment matcher (src/hooks/useSegmentMatches.ts), the bridge dictionary *)
(* (dictionaryService) and the Dijkstra matcher (dijkstraMatcher).         *)
(*                                                                         *)
(* Strings are sequences of one-character strings: a digit string is       *)
(* <<"1","7">>, a word is <<"d","o","g">>.  Weights are kept in half       *)
(* units (the source subtracts 0.5 for a peg), so every weight of the      *)
(* source appears doubled.                                                 *)
(***************************************************************************)
EXTENDS Integers, Sequences, FiniteSets, TLC

VARIABLES
  called,        \* names of the operations already applied to the inputs
  targetDigits,  \* the digit string handed to the engine
  maxParts,      \* generateAllSplits: maxParts
  maxSplits,     \* getDisplaySplits: maxSplits
  splitsOut,     \* value returned by generateAllSplits
  displayOut,    \* value returned by getDisplaySplits
  maxResults,    \* the maxResults argument of the matcher functions
  candidates,    \* diversifyResults: the results argument
  diversifiedOut, \* value returned by diversifyResults
  activeSystem,      \* the active MnemonicSystem
  loadedDictionary,  \* the loaded Dictionary: bridge code -> words
  wordListData,    \* the embedded word list: entries {word, frequency}
  customPegs,    \* the custom pegs passed to the engine
  matcherOut,    \* value returned by findWordCombinations
  segmentOut,    \* value returned by getMatchesForDigits
  pc,            \* findOptimalCombinations: "idle", "loop" or "returned"
  wordMap,       \* findOptimalCombinations: wordMap
  queue,         \* findOptimalCombinations: queue
  bestWeightToPosition, \* findOptimalCombinations: bestWeightToPosition
  results,       \* findOptimalCombinations: results
  seen,          \* findOptimalCombinations: seen
  encWord,       \* wordToDigits: word
  encLowerWord,  \* wordToDigits: lowerWord
  encI,          \* wordToDigits: i (0-based)
  encDigits,     \* wordToDigits: digits
  encPc,         \* wordToDigits: "idle", "loop" or "returned"
  bridgeIn,      \* bridgeCodeToDigits: bridgeCode
  toCodeOut,     \* value returned by digitsToBridgeCode(targetDigits)
  toDigitsOut,   \* value returned by bridgeCodeToDigits(bridgeIn)
  backDigitsOut, \* value returned by bridgeCodeToDigits(toCodeOut)
  backCodeOut,   \* value returned by digitsToBridgeCode(toDigitsOut)
  wordsFor,      \* findWordsForDigits: digits
  wordsOut,      \* value returned by findWordsForDigits
  prefixOut,     \* value returned by findPrefixMatches of dictionaryService
  partialOut,    \* value returned by findPartialMatches
  rowsOut,       \* value returned by buildSplitRows
  maxCombinations, \* buildSplitRows: maxCombinations
  entryDigits,   \* CustomPegEntry: digits
  entryWord,     \* CustomPegEntry: word
  warning,       \* CustomPegEntry: warning (<<>> is null)
  favorites,     \* useFavorites: favorites
  lastEvent,     \* the handler that ran last
  cachedDictionary, \* dictionaryService: cachedDictionary (<<>> is null)
  loadPromise,   \* dictionaryService: loadPromise (<<>> is null, <<k>> the promise of load k)
  loads,         \* the promise chains loadDictionary has built, oldest first
  loadCalls,     \* the promises loadDictionary has returned to its callers
  hookDictionary, \* useDictionary: dictionary (<<>> is null)
  isLoading,     \* useDictionary: isLoading
  error,         \* useDictionary: error (<<>> is null)
  hookPc,        \* useDictionary: position of the effect and of its handlers
  indexDigits,   \* Index: digits
  view,          \* Index: the branch of the results area rendered last
  engineCalls,   \* the calls of buildSplitRows and getMatchesForDigits made so far
  lastHook,      \* useSegmentMatches: the arguments and the result of the last call
  similarWords,  \* areSimilar: word1 and word2
  similarOut,    \* areSimilar: the value returned
  storage,       \* localStorage: the item under STORAGE_KEY (<<>> is null)
  favCall        \* useFavorites: the last call, its argument and what it handed to setItem (<<>> before any)

inputVars == <<activeSystem, loadedDictionary, wordListData, customPegs>>

searchVars == <<matcherOut, segmentOut, pc, wordMap, queue, bestWeightToPosition, results, seen>>

splitVars == <<maxParts, maxSplits, splitsOut, displayOut>>

divVars == <<candidates, diversifiedOut>>

encVars == <<encWord, encLowerWord, encI, encDigits, encPc>>

bridgeVars == <<bridgeIn, toCodeOut, toDigitsOut, backDigitsOut, backCodeOut, wordsFor, wordsOut, prefixOut>>

entryVars == <<partialOut, rowsOut, maxCombinations>>

pegVars == <<entryDigits, entryWord, warning, favorites, lastEvent>>

loadVars == <<cachedDictionary, loadPromise, loads, loadCalls, hookDictionary, isLoading, error, hookPc>>

uiVars == <<indexDigits, view, engineCalls, lastHook>>

lateVars == <<similarWords, similarOut, storage, favCall>>

extraVars == <<encVars, bridgeVars, entryVars, pegVars, loadVars, uiVars, lateVars>>

\* the variables no step of a call of wordToDigits changes
encFrame == <<targetDigits, maxResults, splitVars, divVars, inputVars, searchVars, bridgeVars, entryVars, pegVars,
             loadVars, uiVars, lateVars>>

\* the variables no step of a call into dictionaryService changes
bridgeFrame == <<targetDigits, maxResults, splitVars, divVars, inputVars, searchVars, encVars, entryVars, pegVars,
                loadVars, uiVars, lateVars>>

\* the variables no handler of the custom peg form and no query of a peg changes
pegFrame == <<maxResults, splitVars, divVars, activeSystem, loadedDictionary, wordListData, matcherOut, pc, queue,
              bestWeightToPosition, results, seen, encVars, bridgeVars, entryVars, loadVars, uiVars, lateVars>>

vars == <<called, targetDigits, maxResults, splitVars, divVars, inputVars, searchVars, extraVars>>

\* ---------------------------------------------------------------- bounds
MaxLen == 4
MaxParts == 3
MaxSplits == 3
MaxCandidates == 3
MaxDivResults == 3
MaxTarget == 3
MaxPegs == 2
MaxResults == 3

\* ------------------------------------------------------- generic helpers
Min(a, b) == IF a <= b THEN a ELSE b

Max(a, b) == IF a >= b THEN a ELSE b

\* Array.prototype.slice(from, to) for 0 <= from, 0 <= to (0-based, to exclusive)
Slice(s, from, to) == SubSeq(s, from + 1, Min(to, Len(s)))

\* String.prototype.startsWith
StartsWith(s, p) == Len(p) <= Len(s) /\ SubSeq(s, 1, Len(p)) = p

RECURSIVE Flatten(_)
\* concatenation of a sequence of sequences
Flatten(ss) == IF ss = <<>> THEN <<>> ELSE Head(ss) \o Flatten(Tail(ss))

RECURSIVE Join(_, _)
\* Array.prototype.join(sep) on an array of strings
Join(parts, sep) == IF parts = <<>> THEN <<>> ELSE IF Len(parts) = 1 THEN parts[1] ELSE parts[1] \o <<sep>> \o Join(Tail(parts), sep)

\* all strings over alphabet A of length lo..hi
StringsOver(A, lo, hi) == UNION {[1..n -> A] : n \in lo..hi}

UpperCaseLetters == <<"A","B","C","D","E","F","G","H","I","J","K","L","M","N","O","P","Q","R","S","T","U","V","W","X","Y","Z">>

LowerCaseLetters == <<"a","b","c","d","e","f","g","h","i","j","k","l","m","n","o","p","q","r","s","t","u","v","w","x","y","z">>

\* ------------------------------------------------------- digitSplitter.ts
DigitSplit(parts) == [parts |-> parts, pattern |-> Join(parts, "+")]

RECURSIVE generateSplitsRecursive_dropsRemainder(_, _, _)
\* generateSplitsRecursive that discards the trailing remainder at the limit
generateSplitsRecursive_dropsRemainder(remaining, currentParts, mp) ==
  IF Len(remaining) = 0
  THEN IF Len(currentParts) <= mp THEN <<DigitSplit(currentParts)>> ELSE <<>>
  ELSE IF Len(currentParts) >= mp
  THEN <<DigitSplit(currentParts)>>
  ELSE Flatten([len \in 1..Len(remaining) |->
         generateSplitsRecursive_dropsRemainder(Slice(remaining, len, Len(remaining)),
                                 Append(currentParts, Slice(remaining, 0, len)), mp)])

RECURSIVE generateSplitsRecursive_shortLoop(_, _, _)
\* generateSplitsRecursive whose loop stops at len < remaining.length
generateSplitsRecursive_shortLoop(remaining, currentParts, mp) ==
  IF Len(remaining) = 0
  THEN IF Len(currentParts) <= mp THEN <<DigitSplit(currentParts)>> ELSE <<>>
  ELSE IF Len(currentParts) >= mp
  THEN <<DigitSplit(Append(currentParts, remaining))>>
  ELSE Flatten([len \in 1..(Len(remaining) - 1) |->
         generateSplitsRecursive_shortLoop(Slice(remaining, len, Len(remaining)),
                                 Append(currentParts, Slice(remaining, 0, len)), mp)])

RECURSIVE generateSplitsRecursive(_, _, _)
\* the inner helper of generateAllSplits; returns the splits it pushes to
\* `results`, in push order (its startIndex argument is never read)
generateSplitsRecursive(remaining, currentParts, mp) ==
  IF Len(remaining) = 0
  THEN IF Len(currentParts) <= mp THEN <<DigitSplit(currentParts)>> ELSE <<>>
  ELSE IF Len(currentParts) >= mp
  THEN <<DigitSplit(Append(currentParts, remaining))>>
  ELSE Flatten([len \in 1..Len(remaining) |->
         generateSplitsRecursive(Slice(remaining, len, Len(remaining)),
                                 Append(currentParts, Slice(remaining, 0, len)), mp)])

RECURSIVE MaxPartLen(_)
MaxPartLen(parts) == IF Len(parts) = 1 THEN Len(parts[1]) ELSE Max(Len(parts[1]), MaxPartLen(Tail(parts)))

RECURSIVE MinPartLen(_)
MinPartLen(parts) == IF Len(parts) = 1 THEN Len(parts[1]) ELSE Min(Len(parts[1]), MinPartLen(Tail(parts)))

\* balanceA / balanceB of the sort comparator
balance(split) == MaxPartLen(split.parts) - MinPartLen(split.parts)

\* the comparator without its balance tie-break
splitCompare_noBalance(a, b) == Len(a.parts) - Len(b.parts)

\* the comparator of results.sort in generateAllSplits (negative: a first)
splitCompare(a, b) == IF Len(a.parts) # Len(b.parts) THEN Len(a.parts) - Len(b.parts) ELSE balance(a) - balance(b)

\* sort comparator of findMatchingWords: a.frequency - b.frequency
frequencyCompare(a, b) == a.frequency - b.frequency

\* sort comparator of findPrefixMatches: longer digits first, then frequency
prefixCompare(a, b) == IF Len(b.digits) # Len(a.digits) THEN Len(b.digits) - Len(a.digits) ELSE a.frequency - b.frequency

\* resultCompare without the custom-pegs-first test
resultCompare_noPegFirst(a, b) == IF Len(a.words) # Len(b.words) THEN Len(a.words) - Len(b.words) ELSE a.combinedFrequency - b.combinedFrequency

\* resultCompare with the word-count difference reversed
resultCompare_moreWordsFirst(a, b) ==
  IF a.isCustomPeg /\ ~b.isCustomPeg THEN -1
  ELSE IF ~a.isCustomPeg /\ b.isCustomPeg THEN 1
  ELSE IF Len(a.words) # Len(b.words) THEN Len(b.words) - Len(a.words)
  ELSE a.combinedFrequency - b.combinedFrequency

\* sort comparator of findWordCombinations: custom pegs first, then fewer
\* words, then combined frequency
resultCompare(a, b) ==
  IF a.isCustomPeg /\ ~b.isCustomPeg THEN -1
  ELSE IF ~a.isCustomPeg /\ b.isCustomPeg THEN 1
  ELSE IF Len(a.words) # Len(b.words) THEN Len(a.words) - Len(b.words)
  ELSE a.combinedFrequency - b.combinedFrequency

queueCompare_heaviestFirst(a, b) == b.totalWeight - a.totalWeight

\* sort comparator of the queue of findOptimalCombinations
queueCompare(a, b) == a.totalWeight - b.totalWeight

\* the comparator of findPartialMatches: longer coverage first, then weight
partialCompare(a, b) == IF Len(b.digits) # Len(a.digits) THEN Len(b.digits) - Len(a.digits) ELSE a.totalWeight - b.totalWeight

\* findPrefixMatches of dictionaryService ordered by shorter codes first
codeLengthCompare_shorterFirst(a, b) == Len(a.digits) - Len(b.digits)

\* the comparator of findPrefixMatches of dictionaryService
codeLengthCompare(a, b) == Len(b.digits) - Len(a.digits)

\* UTF-16 code unit of a letter (upper case before lower case)
CharCode(c) ==
  IF \E k \in 1..26 : UpperCaseLetters[k] = c THEN 64 + (CHOOSE k \in 1..26 : UpperCaseLetters[k] = c)
  ELSE IF \E k \in 1..26 : LowerCaseLetters[k] = c THEN 96 + (CHOOSE k \in 1..26 : LowerCaseLetters[k] = c)
  ELSE 0

\* the default comparator of Array.prototype.sort(): strings by code units
stringCompare(a, b) ==
  LET differ == {i \in 1..Min(Len(a), Len(b)) : a[i] # b[i]}
  IN IF differ = {} THEN Len(a) - Len(b)
     ELSE LET i == CHOOSE d \in differ : \A e \in differ : d <= e IN CharCode(a[i]) - CharCode(b[i])

\* the comparator function passed to Array.prototype.sort at each call site
Compare(site, a, b) ==
  CASE site = "generateAllSplits" -> splitCompare(a, b)
    [] site = "findMatchingWords" -> frequencyCompare(a, b)
    [] site = "findPrefixMatches" -> prefixCompare(a, b)
    [] site = "findWordCombinations" -> resultCompare(a, b)
    [] site = "findOptimalCombinations" -> queueCompare(a, b)
    [] site = "findCombinationsRecursive" -> stringCompare(a, b)
    [] site = "dictionaryService" -> codeLengthCompare(a, b)
    [] site = "findPartialMatches" -> partialCompare(a, b)

\* insert x after every element that does not compare greater than it
InsertSorted(sorted, x, site) ==
  LET later == {i \in 1..Len(sorted) : Compare(site, sorted[i], x) > 0}
      k == IF later = {} THEN Len(sorted) + 1 ELSE CHOOSE i \in later : \A j \in later : i <= j
  IN SubSeq(sorted, 1, k - 1) \o <<x>> \o SubSeq(sorted, k, Len(sorted))

\* Array.prototype.sort(cmp): a stable sort (all comparators of the program
\* are consistent orders, so the result of a stable sort is unique)
StableSort(s, site) ==
  LET f[i \in 0..Len(s)] == IF i = 0 THEN <<>> ELSE InsertSorted(f[i - 1], s[i], site)
  IN f[Len(s)]

\* generateAllSplits without the early return for an empty digit string
generateAllSplits_noEmptyGuard(digits, mp) == StableSort(generateSplitsRecursive(digits, <<>>, mp), "generateAllSplits")

generateAllSplits(digits, mp) == IF Len(digits) = 0 THEN <<>> ELSE StableSort(generateSplitsRecursive(digits, <<>>, mp), "generateAllSplits")

DISPLAY_MAX_PARTS == 4

getDisplaySplits(digits, ms) == Slice(generateAllSplits(digits, DISPLAY_MAX_PARTS), 0, ms)

\* ------------------------------- useMnemonicMatcher.ts: diversification
\* String.prototype.toLowerCase
toLowerCase(w) == [i \in 1..Len(w) |-> IF \E k \in 1..26 : UpperCaseLetters[k] = w[i] THEN LowerCaseLetters[CHOOSE k \in 1..26 : UpperCaseLetters[k] = w[i]] ELSE w[i]]

\* String.prototype.endsWith
EndsWith(s, suffix) == Len(suffix) <= Len(s) /\ SubSeq(s, Len(s) - Len(suffix) + 1, Len(s)) = suffix

\* the suffixes array of areSimilar
suffixes == << <<"s">>, <<"e","s">>, <<"e","d">>, <<"i","n","g">>, <<"e","r">>, <<"e","s","t">>, <<"l","y">>, <<"t","i","o","n">>, <<"n","e","s","s">> >>

\* w.endsWith(suffix) ? w.slice(0, -suffix.length) : w
stripSuffix(w, suffix) == IF EndsWith(w, suffix) THEN SubSeq(w, 1, Len(w) - Len(suffix)) ELSE w

\* areSimilar that only recognises equal words
areSimilar_exactOnly(word1, word2) == toLowerCase(word1) = toLowerCase(word2)

areSimilar(word1, word2) ==
  LET w1 == toLowerCase(word1)
      w2 == toLowerCase(word2)
  IN \/ w1 = w2
     \/ StartsWith(w1, w2) \/ StartsWith(w2, w1)
     \/ \E k \in 1..Len(suffixes) :
          LET base1 == stripSuffix(w1, suffixes[k])
              base2 == stripSuffix(w2, suffixes[k])
          IN base1 = base2 \/ base1 = w2 \/ base2 = w1

\* hasSimilar of diversifyResults: some word of the result is similar to an
\* already used word
hasSimilar(result, usedWords) == \E i \in 1..Len(result.words) : \E usedWord \in usedWords : areSimilar(result.words[i], usedWord)

\* the acceptance test without the exemption of custom pegs
accepts_noPegExemption(result, usedWords) == ~hasSimilar(result, usedWords)

\* the test `!hasSimilar || result.isCustomPeg` of diversifyResults
accepts(result, usedWords) == ~hasSimilar(result, usedWords) \/ result.isCustomPeg

RECURSIVE diversifyLoop(_, _, _, _, _)
\* the for loop of diversifyResults from index i on (1-based), with the
\* values of diversified and usedWords at that point
diversifyLoop(list, mr, i, diversified, usedWords) ==
  IF i > Len(list) THEN diversified
  ELSE LET result == list[i]
           take == accepts(result, usedWords)
           diversified2 == IF take THEN Append(diversified, result) ELSE diversified
           usedWords2 == IF take THEN usedWords \cup {toLowerCase(result.words[k]) : k \in 1..Len(result.words)} ELSE usedWords
       IN IF Len(diversified2) >= mr THEN diversified2
          ELSE diversifyLoop(list, mr, i + 1, diversified2, usedWords2)

diversifyResults(list, mr) == diversifyLoop(list, mr, 1, <<>>, {})

\* ------------------------------------------------------ mnemonicSystems.ts
Systems == {"do-re-major", "major"}

\* the keys of a mappings table in the order Object.entries visits them
DigitOrder == <<"0", "1", "2", "3", "4", "5", "6", "7", "8", "9">>

doReMajorMappings ==
  [d \in {DigitOrder[i] : i \in 1..10} |->
     CASE d = "0" -> << <<"n">> >>
       [] d = "1" -> << <<"d">>, <<"t">>, <<"t","h">> >>
       [] d = "2" -> << <<"r">> >>
       [] d = "3" -> << <<"m">> >>
       [] d = "4" -> << <<"f">>, <<"p","h">>, <<"v">> >>
       [] d = "5" -> << <<"s">>, <<"z">>, <<"s","s">>, <<"c">>, <<"s","c">> >>
       [] d = "6" -> << <<"l">> >>
       [] d = "7" -> << <<"k">>, <<"g">>, <<"c">>, <<"q">>, <<"c","k">>, <<"c","h">>, <<"x">> >>
       [] d = "8" -> << <<"c","h">>, <<"j">>, <<"s","h">>, <<"g","e">>, <<"d","g">> >>
       [] d = "9" -> << <<"p">>, <<"b">> >>]

majorMappings ==
  [d \in {DigitOrder[i] : i \in 1..10} |->
     CASE d = "0" -> << <<"s">>, <<"z">>, <<"s","s">>, <<"c">>, <<"s","c">> >>
       [] d = "1" -> << <<"t">>, <<"d">>, <<"t","h">> >>
       [] d = "2" -> << <<"n">> >>
       [] d = "3" -> << <<"m">> >>
       [] d = "4" -> << <<"r">> >>
       [] d = "5" -> << <<"l">> >>
       [] d = "6" -> << <<"j">>, <<"c","h">>, <<"s","h">>, <<"g","e">>, <<"d","g">> >>
       [] d = "7" -> << <<"k">>, <<"g">>, <<"c">>, <<"q">>, <<"c","k">>, <<"x">> >>
       [] d = "8" -> << <<"f">>, <<"v">>, <<"p","h">> >>
       [] d = "9" -> << <<"p">>, <<"b">> >>]

\* mnemonicSystems[system].mappings
mappings(system) == IF system = "do-re-major" THEN doReMajorMappings ELSE majorMappings

\* the positions in DigitOrder of the digits whose list holds the pattern
ListedUnder(table, pattern) == {i \in 1..10 : \E k \in 1..Len(table[DigitOrder[i]]) : toLowerCase(table[DigitOrder[i]][k]) = pattern}

\* buildConsonantToDigitMap(table): the entries are written in
\* Object.entries order, so the last digit that lists a pattern stays
buildConsonantToDigitMap(table) ==
  [pattern \in UNION {{toLowerCase(table[DigitOrder[i]][k]) : k \in 1..Len(table[DigitOrder[i]])} : i \in 1..10} |->
     DigitOrder[CHOOSE i \in ListedUnder(table, pattern) : \A j \in ListedUnder(table, pattern) : j <= i]]

\* mnemonicSystems: the consonantToDigit map of each system, built once
mnemonicSystems == [sys \in Systems |-> [mappings |-> mappings(sys), consonantToDigit |-> buildConsonantToDigitMap(mappings(sys))]]

\* config.consonantToDigit[pattern]; <<>> stands for undefined
consonantToDigit(sys, pattern) == IF pattern \in DOMAIN mnemonicSystems[sys].consonantToDigit THEN <<mnemonicSystems[sys].consonantToDigit[pattern]>> ELSE <<>>

\* ---------------------------------- useMnemonicMatcher.ts: wordToDigits
multiPatterns == << <<"s","c","h">>, <<"t","c","h">>, <<"d","g","e">>, <<"c","k">>, <<"p","h">>, <<"t","h">>, <<"c","h">>, <<"s","h">>, <<"s","c">>, <<"s","s">>, <<"g","e">>, <<"d","g">> >>

\* the indexes of the multi-character patterns that match at position i
\* (1-based) and are mapped to a digit
MatchingPatterns(system, lowerWord, i) == {k \in 1..Len(multiPatterns) : StartsWith(SubSeq(lowerWord, i, Len(lowerWord)), multiPatterns[k]) /\ consonantToDigit(system, multiPatterns[k]) # <<>>}

RECURSIVE wordToDigitsLoop(_, _, _, _)
\* the while loop of wordToDigits from index i on (1-based) with the
\* digits emitted so far
wordToDigitsLoop(system, lowerWord, i, digits) ==
  IF i > Len(lowerWord) THEN digits
  ELSE IF i > 1 /\ lowerWord[i] = lowerWord[i - 1] /\ consonantToDigit(system, <<lowerWord[i]>>) # <<>>
  THEN wordToDigitsLoop(system, lowerWord, i + 1, digits)
  ELSE LET matching == MatchingPatterns(system, lowerWord, i)
       IN IF matching # {}
          THEN LET k == CHOOSE m \in matching : \A n \in matching : m <= n
               IN wordToDigitsLoop(system, lowerWord, i + Len(multiPatterns[k]), digits \o consonantToDigit(system, multiPatterns[k]))
          ELSE wordToDigitsLoop(system, lowerWord, i + 1, digits \o consonantToDigit(system, <<lowerWord[i]>>))

wordToDigits(word, system) == wordToDigitsLoop(system, toLowerCase(word), 1, <<>>)

\* -------------------------------------------------- dictionaryService.ts
\* DIGIT_TO_BRIDGE with the table of the major system for both systems
DIGIT_TO_BRIDGE_oneTable(system, d) ==
  CASE d = "0" -> <<"S">> [] d = "1" -> <<"D">> [] d = "2" -> <<"N">> [] d = "3" -> <<"M">> [] d = "4" -> <<"R">>
    [] d = "5" -> <<"L">> [] d = "6" -> <<"J">> [] d = "7" -> <<"K">> [] d = "8" -> <<"F">> [] d = "9" -> <<"P">>
    [] OTHER -> <<>>

\* DIGIT_TO_BRIDGE[system][d]; <<>> stands for undefined
DIGIT_TO_BRIDGE(system, d) ==
  IF system = "major"
  THEN CASE d = "0" -> <<"S">> [] d = "1" -> <<"D">> [] d = "2" -> <<"N">> [] d = "3" -> <<"M">> [] d = "4" -> <<"R">>
         [] d = "5" -> <<"L">> [] d = "6" -> <<"J">> [] d = "7" -> <<"K">> [] d = "8" -> <<"F">> [] d = "9" -> <<"P">>
         [] OTHER -> <<>>
  ELSE CASE d = "0" -> <<"N">> [] d = "1" -> <<"D">> [] d = "2" -> <<"R">> [] d = "3" -> <<"M">> [] d = "4" -> <<"F">>
         [] d = "5" -> <<"S">> [] d = "6" -> <<"L">> [] d = "7" -> <<"K">> [] d = "8" -> <<"J">> [] d = "9" -> <<"P">>
         [] OTHER -> <<>>

\* BRIDGE_TO_DIGIT with the table of the major system for both systems
BRIDGE_TO_DIGIT_oneTable(sys, char) ==
  CASE char = "D" -> <<"1">> [] char = "N" -> <<"2">> [] char = "M" -> <<"3">> [] char = "R" -> <<"4">> [] char = "L" -> <<"5">>
    [] char = "J" -> <<"6">> [] char = "K" -> <<"7">> [] char = "F" -> <<"8">> [] char = "P" -> <<"9">> [] char = "S" -> <<"0">>
    [] OTHER -> <<>>

\* BRIDGE_TO_DIGIT[system][char]; <<>> stands for undefined
BRIDGE_TO_DIGIT(sys, char) ==
  IF sys = "major"
  THEN CASE char = "D" -> <<"1">> [] char = "N" -> <<"2">> [] char = "M" -> <<"3">> [] char = "R" -> <<"4">> [] char = "L" -> <<"5">>
         [] char = "J" -> <<"6">> [] char = "K" -> <<"7">> [] char = "F" -> <<"8">> [] char = "P" -> <<"9">> [] char = "S" -> <<"0">>
         [] OTHER -> <<>>
  ELSE CASE char = "D" -> <<"1">> [] char = "N" -> <<"0">> [] char = "M" -> <<"3">> [] char = "R" -> <<"2">> [] char = "L" -> <<"6">>
         [] char = "J" -> <<"8">> [] char = "K" -> <<"7">> [] char = "F" -> <<"4">> [] char = "P" -> <<"9">> [] char = "S" -> <<"5">>
         [] OTHER -> <<>>

\* bridgeCode.split('').map(char => mapping[char] || '').join('')
bridgeCodeToDigits(bridgeCode, sys) == Flatten([i \in 1..Len(bridgeCode) |-> BRIDGE_TO_DIGIT(sys, bridgeCode[i])])

\* digits.split('').map(d => mapping[d] || '').join('')
digitsToBridgeCode(digits, system) == Flatten([i \in 1..Len(digits) |-> DIGIT_TO_BRIDGE(system, digits[i])])

\* dictionary[bridgeCode] || []  (a Dictionary is a function from its keys,
\* the bridge codes, to word lists)
findWordsForDigits(dictionary, digits, system) ==
  LET bridgeCode == digitsToBridgeCode(digits, system)
  IN IF bridgeCode \in DOMAIN dictionary THEN dictionary[bridgeCode] ELSE <<>>

\* -------------------------------------------------- useSegmentMatches.ts
RECURSIVE addSegmentMatches(_, _, _, _)
\* one of the two loops of getMatchesForDigits: push every word of `words`
\* whose lower-case form is not yet in seen
addSegmentMatches(words, isCustomPeg, matches, seenWords) ==
  IF words = <<>> THEN [results |-> matches, seen |-> seenWords]
  ELSE IF toLowerCase(Head(words)) \in seenWords
  THEN addSegmentMatches(Tail(words), isCustomPeg, matches, seenWords)
  ELSE addSegmentMatches(Tail(words), isCustomPeg,
                         Append(matches, [word |-> Head(words), isCustomPeg |-> isCustomPeg]),
                         seenWords \cup {toLowerCase(Head(words))})

RECURSIVE SelectSeq2(_, _)
\* the elements s[i] with keep[i] true, in order (a loop with an if)
SelectSeq2(s, keep) == IF s = <<>> THEN <<>> ELSE (IF keep[1] THEN <<Head(s)>> ELSE <<>>) \o SelectSeq2(Tail(s), Tail(keep))

\* getMatchesForDigits with the dictionary consulted before the pegs
getMatchesForDigits_dictionaryFirst(digits, dictionary, system, pegs) ==
  LET fromDict == addSegmentMatches(findWordsForDigits(dictionary, digits, system), FALSE, <<>>, {})
      pegWords == SelectSeq2([i \in 1..Len(pegs) |-> pegs[i].words[1]],
                             [i \in 1..Len(pegs) |-> pegs[i].digits = digits /\ Len(pegs[i].words) = 1])
  IN addSegmentMatches(pegWords, TRUE, fromDict.results, fromDict.seen).results

getMatchesForDigits(digits, dictionary, system, pegs) ==
  LET pegWords == SelectSeq2([i \in 1..Len(pegs) |-> pegs[i].words[1]],
                             [i \in 1..Len(pegs) |-> pegs[i].digits = digits /\ Len(pegs[i].words) = 1])
      fromPegs == addSegmentMatches(pegWords, TRUE, <<>>, {})
  IN addSegmentMatches(findWordsForDigits(dictionary, digits, system), FALSE, fromPegs.results, fromPegs.seen).results

\* ------------------------------------ useMnemonicMatcher.ts: word cache
\* buildWordDigitCache: the entries of the cache in Map insertion order (the
\* words of a word list are distinct)
buildWordDigitCache(wl, system) ==
  SelectSeq2([i \in 1..Len(wl) |-> [word |-> wl[i].word, digits |-> wordToDigits(wl[i].word, system), frequency |-> wl[i].frequency]],
             [i \in 1..Len(wl) |-> Len(wordToDigits(wl[i].word, system)) > 0])

\* findMatchingWords that returns every word of the cache
findMatchingWords_ignoresDigits(digits, wordCache) ==
  StableSort([n \in 1..Len(wordCache) |-> [word |-> wordCache[n].word, frequency |-> wordCache[n].frequency]], "findMatchingWords")

findMatchingWords(digits, wordCache) ==
  StableSort(SelectSeq2([i \in 1..Len(wordCache) |-> [word |-> wordCache[i].word, frequency |-> wordCache[i].frequency]],
                        [i \in 1..Len(wordCache) |-> wordCache[i].digits = digits]),
             "findMatchingWords")

\* findPrefixMatches that keeps every word of the cache
findPrefixMatches_noPrefixTest(digits, wordCache) == StableSort(wordCache, "findPrefixMatches")

findPrefixMatches(digits, wordCache) ==
  StableSort(SelectSeq2(wordCache, [i \in 1..Len(wordCache) |-> StartsWith(digits, wordCache[i].digits) /\ Len(wordCache[i].digits) > 0]),
             "findPrefixMatches")

\* ------------------------------------------- dijkstraMatcher (part_004)
WEIGHT_1_DIGIT == 10

WEIGHT_2_DIGIT == 3

WEIGHT_DEFAULT == 1

\* the number of words taken per bridge code: words.slice(0, 5)
TOP_WORDS == 5

\* the slack of the pruning test: newWeight > bestWeight + 5
PRUNE_SLACK == 5

beyondSlack_never(newWeight, bestWeight) == FALSE

\* newWeight > bestWeight + 5, on weights in half units
beyondSlack(newWeight, bestWeight) == newWeight > bestWeight + 2 * PRUNE_SLACK

getWeight(digitLength) == IF digitLength = 1 THEN WEIGHT_1_DIGIT ELSE IF digitLength = 2 THEN WEIGHT_2_DIGIT ELSE WEIGHT_DEFAULT

\* a peg edge weighted getWeight(len) + 0.5
pegWeight_penalised(digitLength) == 2 * getWeight(digitLength) + 1

\* weight of a peg edge, getWeight(len) - 0.5, in half units
pegWeight(digitLength) == 2 * getWeight(digitLength) - 1

\* weight of a dictionary edge, getWeight(len), in half units
wordWeight(digitLength) == 2 * getWeight(digitLength)

\* the peg loop of buildWordMap that takes only the pegs whose word
\* encodes to their digits
pegMatchesAt_validated(digits, pegs, startPos) ==
  SelectSeq2([i \in 1..Len(pegs) |-> [word |-> pegs[i].words[1], digits |-> pegs[i].digits, length |-> Len(pegs[i].digits),
                                      weight |-> pegWeight(Len(pegs[i].digits)), isCustomPeg |-> TRUE]],
             [i \in 1..Len(pegs) |-> /\ Len(pegs[i].words) = 1
                                     /\ startPos <= Len(digits) - Len(pegs[i].digits)
                                     /\ Slice(digits, startPos, startPos + Len(pegs[i].digits)) = pegs[i].digits
                                     /\ \A sys \in Systems : wordToDigits(pegs[i].words[1], sys) = pegs[i].digits])

\* the matches the peg loop of buildWordMap pushes at startPos (0-based)
pegMatchesAt(digits, pegs, startPos) ==
  SelectSeq2([i \in 1..Len(pegs) |-> [word |-> pegs[i].words[1], digits |-> pegs[i].digits, length |-> Len(pegs[i].digits),
                                      weight |-> pegWeight(Len(pegs[i].digits)), isCustomPeg |-> TRUE]],
             [i \in 1..Len(pegs) |-> /\ Len(pegs[i].words) = 1
                                     /\ startPos <= Len(digits) - Len(pegs[i].digits)
                                     /\ Slice(digits, startPos, startPos + Len(pegs[i].digits)) = pegs[i].digits])

\* the matches the dictionary loop of buildWordMap pushes at startPos
wordMatchesAt(digits, dictionary, system, startPos) ==
  Flatten([len \in 1..(Len(digits) - startPos) |->
     LET digitSlice == Slice(digits, startPos, startPos + len)
         words == Slice(findWordsForDigits(dictionary, digitSlice, system), 0, TOP_WORDS)
     IN [k \in 1..Len(words) |-> [word |-> words[k], digits |-> digitSlice, length |-> len,
                                  weight |-> wordWeight(len), isCustomPeg |-> FALSE]]])

\* buildWordMap: position (0-based) -> matches, pegs first
buildWordMap(digits, dictionary, system, pegs) ==
  [startPos \in 0..(Len(digits) - 1) |-> pegMatchesAt(digits, pegs, startPos) \o wordMatchesAt(digits, dictionary, system, startPos)]

RECURSIVE expand(_, _, _, _)
\* the for loop over possibleWords of findOptimalCombinations: returns the
\* queue and bestWeightToPosition after the pushes for `current`
expand(current, possibleWords, q, best) ==
  IF possibleWords = <<>> THEN [queue |-> q, bestWeightToPosition |-> best]
  ELSE LET match == Head(possibleWords)
           newPosition == current.position + match.length
           newWeight == current.totalWeight + match.weight
           known == newPosition \in DOMAIN best
       IN IF known /\ beyondSlack(newWeight, best[newPosition])
          THEN expand(current, Tail(possibleWords), q, best)
          ELSE expand(current, Tail(possibleWords),
                      Append(q, [position |-> newPosition, totalWeight |-> newWeight,
                                 words |-> Append(current.words, [word |-> match.word, startPos |-> current.position,
                                                                  endPos |-> newPosition, isCustomPeg |-> match.isCustomPeg])]),
                      IF ~known \/ newWeight < best[newPosition]
                      THEN [pos \in DOMAIN best \cup {newPosition} |-> IF pos = newPosition THEN newWeight ELSE best[pos]]
                      ELSE best)

\* the DijkstraResult recorded for a path that reached the end
DijkstraResult(current, digits) ==
  [words |-> [i \in 1..Len(current.words) |-> current.words[i].word],
   digits |-> digits,
   digitsCovered |-> [i \in 1..Len(digits) |-> i - 1],
   isFullMatch |-> TRUE,
   totalWeight |-> current.totalWeight,
   isCustomPeg |-> \E i \in 1..Len(current.words) : current.words[i].isCustomPeg]

\* Array.from({ length: n }, (_, i) => i)
ArrayFromLength(n) == [i \in 1..n |-> i - 1]

\* a MatchResult; an absent isCustomPeg (undefined) is FALSE
MatchResult(words, digits, isFullMatch, combinedFrequency, isCustomPeg) ==
  [words |-> words, digits |-> digits, digitsCovered |-> ArrayFromLength(Len(digits)),
   isFullMatch |-> isFullMatch, combinedFrequency |-> combinedFrequency, isCustomPeg |-> isCustomPeg]

\* ------------------------------ useMnemonicMatcher.ts: findWordCombinations
PegKeyPrefix == <<"p","e","g",":">>

PartialPegKeyPrefix == <<"p","a","r","t","i","a","l","-","p","e","g",":">>

PartialKeyPrefix == <<"p","a","r","t","i","a","l",":">>

\* push result under key unless the key was seen (state: results and seen)
pushUnseen(st, key, result) == IF key \in st.seen THEN st ELSE [results |-> Append(st.results, result), seen |-> st.seen \cup {key}]

RECURSIVE addExactPegs(_, _, _)
\* first loop of findWordCombinations: pegs whose digits are the target
addExactPegs(pegs, digits, st) ==
  IF pegs = <<>> THEN st
  ELSE addExactPegs(Tail(pegs), digits,
         IF Head(pegs).digits = digits
         THEN pushUnseen(st, PegKeyPrefix \o Join(Head(pegs).words, "+"), MatchResult(Head(pegs).words, digits, TRUE, -1000, TRUE))
         ELSE st)

RECURSIVE addExactMatches(_, _, _)
\* second loop: the exact single-word matches
addExactMatches(matches, digits, st) ==
  IF matches = <<>> THEN st
  ELSE addExactMatches(Tail(matches), digits, pushUnseen(st, Head(matches).word, MatchResult(<<Head(matches).word>>, digits, TRUE, Head(matches).frequency, FALSE)))

RECURSIVE buildPegDigitsMap(_, _, _)
\* pegDigitsMap as the sequence of its entries in Map order: a later peg
\* with the same digits replaces the value and keeps the position
buildPegDigitsMap(pegs, digits, map) ==
  IF pegs = <<>> THEN map
  ELSE LET peg == Head(pegs)
           entry == [word |-> peg.words[1], digits |-> peg.digits]
       IN buildPegDigitsMap(Tail(pegs), digits,
            IF StartsWith(digits, peg.digits) /\ Len(peg.words) = 1
            THEN IF \E i \in 1..Len(map) : map[i].digits = peg.digits
                 THEN [i \in 1..Len(map) |-> IF map[i].digits = peg.digits THEN entry ELSE map[i]]
                 ELSE Append(map, entry)
            ELSE map)

\* the recursive calls made by one activation of findCombinationsRecursive,
\* in order: pegs that match the remaining digits, then the first 8 prefix
\* matches (frequency is the summand added to currentFrequency)
combinationSteps(remaining, ctx) ==
  SelectSeq2([i \in 1..Len(ctx.pegDigitsMap) |-> [word |-> ctx.pegDigitsMap[i].word, digits |-> ctx.pegDigitsMap[i].digits, frequency |-> -500, isCustomPeg |-> TRUE]],
             [i \in 1..Len(ctx.pegDigitsMap) |-> StartsWith(remaining, ctx.pegDigitsMap[i].digits)])
  \o LET prefixMatches == Slice(findPrefixMatches(remaining, ctx.wordCache), 0, 8)
     IN [i \in 1..Len(prefixMatches) |-> [word |-> prefixMatches[i].word, digits |-> prefixMatches[i].digits, frequency |-> prefixMatches[i].frequency, isCustomPeg |-> FALSE]]

RECURSIVE findCombinationsRecursive(_, _, _, _, _, _, _)
RECURSIVE findCombinationsLoop(_, _, _, _, _, _, _, _)
\* findCombinationsRecursive (its startIndex argument is never read); ctx
\* holds the captured targetDigits, maxResults, wordCache and pegDigitsMap
findCombinationsRecursive(remaining, currentWords, currentFrequency, hasCustomPeg, depth, ctx, st) ==
  IF Len(remaining) = 0
  THEN pushUnseen(st, Join(StableSort(currentWords, "findCombinationsRecursive"), "+"),
                  MatchResult(currentWords, ctx.targetDigits, TRUE, IF hasCustomPeg THEN currentFrequency - 500 ELSE currentFrequency, hasCustomPeg))
  ELSE IF depth > 4 \/ Len(st.results) >= ctx.maxResults * 3 THEN st
  ELSE findCombinationsLoop(combinationSteps(remaining, ctx), remaining, currentWords, currentFrequency, hasCustomPeg, depth, ctx, st)

\* the two for loops of findCombinationsRecursive over the given steps
findCombinationsLoop(steps, remaining, currentWords, currentFrequency, hasCustomPeg, depth, ctx, st) ==
  IF steps = <<>> THEN st
  ELSE LET step == Head(steps)
       IN findCombinationsLoop(Tail(steps), remaining, currentWords, currentFrequency, hasCustomPeg, depth, ctx,
            findCombinationsRecursive(Slice(remaining, Len(step.digits), Len(remaining)),
                                      Append(currentWords, step.word),
                                      currentFrequency + step.frequency,
                                      hasCustomPeg \/ step.isCustomPeg,
                                      depth + 1, ctx, st))

RECURSIVE addPartialPegs(_, _, _)
\* the loop over the partial custom pegs
addPartialPegs(pegs, digits, st) ==
  IF pegs = <<>> THEN st
  ELSE addPartialPegs(Tail(pegs), digits,
         IF StartsWith(digits, Head(pegs).digits) /\ Len(Head(pegs).digits) < Len(digits)
         THEN pushUnseen(st, PartialPegKeyPrefix \o Join(Head(pegs).words, "+"), MatchResult(Head(pegs).words, Head(pegs).digits, FALSE, -500, TRUE))
         ELSE st)

RECURSIVE addPartialMatches(_, _, _, _)
\* the loop over the first 10 prefix matches, left at maxResults * 2
addPartialMatches(matches, digits, mr, st) ==
  IF matches = <<>> \/ Len(st.results) >= mr * 2 THEN st
  ELSE addPartialMatches(Tail(matches), digits, mr,
         IF Len(Head(matches).digits) < Len(digits)
         THEN pushUnseen(st, PartialKeyPrefix \o Head(matches).word, MatchResult(<<Head(matches).word>>, Head(matches).digits, FALSE, Head(matches).frequency, FALSE))
         ELSE st)

\* the list findWordCombinations hands to diversifyResults
assembleResults(digits, wordCache, pegs, mr) ==
  LET st1 == addExactPegs(pegs, digits, [results |-> <<>>, seen |-> {}])
      st2 == addExactMatches(Slice(findMatchingWords(digits, wordCache), 0, 8), digits, st1)
      ctx == [targetDigits |-> digits, maxResults |-> mr, wordCache |-> wordCache, pegDigitsMap |-> buildPegDigitsMap(pegs, digits, <<>>)]
      st3 == findCombinationsRecursive(digits, <<>>, 0, FALSE, 0, ctx, st2)
      st4 == [results |-> StableSort(st3.results, "findWordCombinations"), seen |-> st3.seen]
  IN IF Len(st4.results) < mr
     THEN addPartialMatches(Slice(findPrefixMatches(digits, wordCache), 0, 10), digits, mr, addPartialPegs(pegs, digits, st4)).results
     ELSE st4.results

findWordCombinations(digits, wordCache, pegs, mr) == IF Len(digits) = 0 THEN <<>> ELSE diversifyResults(assembleResults(digits, wordCache, pegs, mr), mr)

\* ------------------------------------------------- specification: splits
SplitDigits == {"1", "2"}

NotRun == <<"not run">>

\* the variables of the splitter while another part of the engine runs
SplitIdle == maxParts = 0 /\ maxSplits = 0 /\ splitsOut = NotRun /\ displayOut = NotRun

\* the variables of the diversifier while another part of the engine runs
DivIdle == candidates = <<>> /\ diversifiedOut = NotRun

\* the variables of the matchers while another part of the engine runs
SearchIdle ==
  /\ activeSystem = "major" /\ loadedDictionary = <<>> /\ wordListData = <<>> /\ customPegs = <<>>
  /\ matcherOut = NotRun /\ segmentOut = NotRun /\ pc = "idle"
  /\ wordMap = <<>> /\ queue = <<>> /\ bestWeightToPosition = <<>> /\ results = <<>> /\ seen = {}

\* the variables of wordToDigits while another part of the engine runs
EncIdle == encWord = <<>> /\ encLowerWord = <<>> /\ encI = 0 /\ encDigits = <<>> /\ encPc = "idle"

\* the variables of dictionaryService while another part of the engine runs
BridgeIdle ==
  /\ bridgeIn = <<>> /\ toCodeOut = NotRun /\ toDigitsOut = NotRun /\ backDigitsOut = NotRun
  /\ backCodeOut = NotRun /\ wordsFor = NotRun /\ wordsOut = NotRun /\ prefixOut = NotRun

\* the variables of the custom peg form while the engine runs on given pegs
PegIdle == entryDigits = <<>> /\ entryWord = <<>> /\ warning = <<>> /\ favorites = <<>> /\ lastEvent = "none"

\* the module state of dictionaryService and the state of useDictionary
\* before the component mounts
LoadIdle ==
  /\ cachedDictionary = <<>> /\ loadPromise = <<>> /\ loads = <<>> /\ loadCalls = <<>>
  /\ hookDictionary = <<>> /\ isLoading = TRUE /\ error = <<>> /\ hookPc = "unmounted"

\* the state of Index before its first render
UiIdle == indexDigits = <<>> /\ view = "none" /\ engineCalls = {} /\ lastHook = <<>>

\* the variables of findPartialMatches and buildSplitRows before a call
EntryIdle == partialOut = NotRun /\ rowsOut = NotRun

\* the default of maxCombinations
DEFAULT_MAX_COMBINATIONS == 50

LateIdle == similarWords = <<>> /\ similarOut = NotRun /\ storage = <<>> /\ favCall = <<>>

\* the variables of every part of the program but the named one are idle
OthersIdle(part) ==
  /\ EntryIdle
  /\ part \notin {"CustomPegEntry", "useFavorites"} => PegIdle
  /\ part # "wordToDigits" => EncIdle
  /\ part # "dictionaryService" => BridgeIdle
  /\ part # "Index" => (LoadIdle /\ UiIdle)
  /\ part \notin {"areSimilar", "useFavorites"} => LateIdle
  /\ part # "buildSplitRows" => maxCombinations = DEFAULT_MAX_COMBINATIONS

\* the variables of the parts of the program a specification leaves alone
ExtraIdle == OthersIdle("engine")

InitSplit ==
  /\ called = {}
  /\ ExtraIdle
  /\ maxResults = 0
  /\ DivIdle
  /\ SearchIdle
  /\ targetDigits \in StringsOver(SplitDigits, 0, MaxLen)
  /\ maxParts \in 1..MaxParts
  /\ maxSplits \in 0..MaxSplits
  /\ splitsOut = NotRun
  /\ displayOut = NotRun

CallGenerateAllSplits ==
  /\ "generateAllSplits" \notin called
  /\ called' = called \cup {"generateAllSplits"}
  /\ splitsOut' = generateAllSplits(targetDigits, maxParts)
  /\ UNCHANGED <<targetDigits, maxResults, maxParts, maxSplits, displayOut, divVars, inputVars, extraVars, searchVars>>

CallGetDisplaySplits ==
  /\ "getDisplaySplits" \notin called
  /\ called' = called \cup {"getDisplaySplits"}
  /\ displayOut' = getDisplaySplits(targetDigits, maxSplits)
  /\ UNCHANGED <<targetDigits, maxResults, maxParts, maxSplits, splitsOut, divVars, inputVars, extraVars, searchVars>>

NextSplit == CallGenerateAllSplits \/ CallGetDisplaySplits

SpecSplit == InitSplit /\ [][NextSplit]_vars

\* ------------------------------------------------------ claims on splits
SplitsReturned == "generateAllSplits" \in called

DisplayReturned == "getDisplaySplits" \in called

\* the parts obtained by cutting d after the positions in cuts (a subset of
\* 1..Len(d)-1): the reference enumeration of segmentations
PartsOfCuts(d, cuts) ==
  LET bounds == {0} \cup cuts \cup {Len(d)}
      nth[i \in 1..Cardinality(bounds)] == CHOOSE b \in bounds : Cardinality({c \in bounds : c < b}) = i - 1
  IN [i \in 1..(Cardinality(bounds) - 1) |-> SubSeq(d, nth[i] + 1, nth[i + 1])]

Occurrences(out, parts) == Cardinality({i \in 1..Len(out) : out[i].parts = parts})

spread(parts) == MaxPartLen(parts) - MinPartLen(parts)

OrderedSplits(out) ==
  \A i, j \in 1..Len(out) : i < j =>
     /\ Len(out[i].parts) <= Len(out[j].parts)
     /\ Len(out[i].parts) = Len(out[j].parts) => spread(out[i].parts) <= spread(out[j].parts)

\* C6: every segmentation returned by generateAllSplits(d, maxParts), d
\* non-empty, consists of non-empty contiguous parts whose concatenation in
\* order is d, and its pattern is the parts joined by '+'.
C6_PartsConcatenate ==
  (SplitsReturned /\ Len(targetDigits) > 0) =>
    \A i \in 1..Len(splitsOut) :
       /\ Len(splitsOut[i].parts) >= 1
       /\ \A k \in 1..Len(splitsOut[i].parts) : Len(splitsOut[i].parts[k]) >= 1
       /\ Flatten(splitsOut[i].parts) = targetDigits
       /\ splitsOut[i].pattern = Join(splitsOut[i].parts, "+")

C6_Witness ==
  /\ SplitsReturned
  /\ Len(targetDigits) = 3
  /\ \E i \in 1..Len(splitsOut) : Len(splitsOut[i].parts) = 3 /\ Len(splitsOut[i].pattern) = 5

\* C7: every segmentation returned by generateAllSplits(d, maxParts) has
\* between 1 and maxParts parts.
C7_AtMostMaxParts ==
  SplitsReturned => \A i \in 1..Len(splitsOut) : Len(splitsOut[i].parts) \in 1..maxParts

\* C8: for every k in 1..min(maxParts, |d|) every way of cutting d into k
\* contiguous non-empty parts appears in the output exactly once, and no
\* pattern appears twice in the output.
C8_CompleteNoDuplicates ==
  (SplitsReturned /\ Len(targetDigits) > 0) =>
    /\ \A cuts \in SUBSET (1..(Len(targetDigits) - 1)) :
         Cardinality(cuts) + 1 <= Min(maxParts, Len(targetDigits)) =>
           Occurrences(splitsOut, PartsOfCuts(targetDigits, cuts)) = 1
    /\ \A i, j \in 1..Len(splitsOut) : i # j => splitsOut[i].pattern # splitsOut[j].pattern

C8_Witness ==
  /\ SplitsReturned
  /\ Len(targetDigits) = 4
  /\ maxParts = 3
  /\ Occurrences(splitsOut, <<SubSeq(targetDigits, 1, 1), SubSeq(targetDigits, 2, 3), SubSeq(targetDigits, 4, 4)>>) = 1

DivWords == { <<"c","a","t">>, <<"c","a","t","s">>, <<"C","a","t","s">>, <<"b","o","x">>, <<"b","o","x","e","s">> }

DivCandidates ==
  {MatchResult(<<w>>, <<"7","1">>, TRUE, 5, peg) : w \in DivWords, peg \in BOOLEAN}
    \cup {MatchResult(<< <<"c","a","t">>, <<"b","o","x">> >>, <<"7","1">>, TRUE, 9, FALSE)}

InitDiv ==
  /\ called = {}
  /\ ExtraIdle
  /\ targetDigits = <<"7","1">>
  /\ maxResults \in 1..MaxDivResults
  /\ candidates \in StringsOver(DivCandidates, 0, MaxCandidates)
  /\ diversifiedOut = NotRun
  /\ SplitIdle
  /\ SearchIdle

CallDiversifyResults ==
  /\ "diversifyResults" \notin called
  /\ called' = called \cup {"diversifyResults"}
  /\ diversifiedOut' = diversifyResults(candidates, maxResults)
  /\ UNCHANGED <<targetDigits, maxResults, candidates, splitVars, inputVars, extraVars, searchVars>>

NextDiv == CallDiversifyResults

SpecDiv == InitDiv /\ [][NextDiv]_vars

\* ------------------------------------------------- claims on diversifier
Diversified == "diversifyResults" \in called

InOutput(c) == \E j \in 1..Len(diversifiedOut) : diversifiedOut[j] = c

\* w is v followed by 's' or 'es', compared case-insensitively
IsPluralOf(w, v) == toLowerCase(w) = toLowerCase(v) \o <<"s">> \/ toLowerCase(w) = toLowerCase(v) \o <<"e","s">>

PluralPair(a, b) == Len(a.words) = 1 /\ Len(b.words) = 1 /\ (IsPluralOf(a.words[1], b.words[1]) \/ IsPluralOf(b.words[1], a.words[1]))

C10_NoPluralPairs ==
  Diversified => \A i, j \in 1..Len(diversifiedOut) : i < j => ~PluralPair(diversifiedOut[i], diversifiedOut[j])

\* C10 (amended): two single-word candidates of the output where one word
\* is a pluralization of the other occur only when the later one of the two
\* is peg-sourced.
C10_PluralPairsOnlyByPeg ==
  Diversified => \A i, j \in 1..Len(diversifiedOut) : (i < j /\ PluralPair(diversifiedOut[i], diversifiedOut[j])) => diversifiedOut[j].isCustomPeg

\* a non-peg plural of an accepted word was offered and rejected
C10_Witness ==
  /\ Diversified
  /\ Len(candidates) = 3
  /\ maxResults = 3
  /\ PluralPair(candidates[1], candidates[2])
  /\ ~candidates[2].isCustomPeg
  /\ candidates[1].words[1] = <<"b","o","x","e","s">>
  /\ Len(diversifiedOut) = 2
  /\ diversifiedOut[2] = candidates[3]

\* ------------------------------- dijkstraMatcher: findPartialMatches
\* the longest prefix findPartialMatches looks up: Math.min(length - 1, 8)
PARTIAL_MAX_PREFIX == 8

\* the number of words taken per bridge code: words.slice(0, 3)
PARTIAL_TOP_WORDS == 3

\* a partial DijkstraResult; an absent isCustomPeg (undefined) is FALSE
PartialResult(words, digits, totalWeight, isCustomPeg) ==
  [words |-> words, digits |-> digits, digitsCovered |-> ArrayFromLength(Len(digits)),
   isFullMatch |-> FALSE, totalWeight |-> totalWeight, isCustomPeg |-> isCustomPeg]

RECURSIVE addPrefixPegs(_, _, _)
\* the loop of findPartialMatches over the custom pegs
addPrefixPegs(pegs, digits, st) ==
  IF pegs = <<>> THEN st
  ELSE addPrefixPegs(Tail(pegs), digits,
         IF StartsWith(digits, Head(pegs).digits) /\ Len(Head(pegs).digits) < Len(digits)
         THEN pushUnseen(st, PegKeyPrefix \o Join(Head(pegs).words, "+"),
                         PartialResult(Head(pegs).words, Head(pegs).digits, pegWeight(Len(Head(pegs).digits)), TRUE))
         ELSE st)

RECURSIVE addPrefixWords(_, _, _)
\* the loop of findPartialMatches over the first words of one bridge code
addPrefixWords(words, digitSlice, st) ==
  IF words = <<>> THEN st
  ELSE addPrefixWords(Tail(words), digitSlice,
         pushUnseen(st, PartialKeyPrefix \o Head(words), PartialResult(<<Head(words)>>, digitSlice, wordWeight(Len(digitSlice)), FALSE)))

RECURSIVE addPrefixLengths(_, _, _, _, _, _)
\* the loop of findPartialMatches over the prefix lengths, longest first
addPrefixLengths(len, digits, dictionary, system, mr, st) ==
  IF len < 1 \/ Len(st.results) >= mr THEN st
  ELSE addPrefixLengths(len - 1, digits, dictionary, system, mr,
         addPrefixWords(Slice(findWordsForDigits(dictionary, Slice(digits, 0, len), system), 0, PARTIAL_TOP_WORDS),
                        Slice(digits, 0, len), st))

findPartialMatches(digits, dictionary, system, pegs, mr) ==
  LET st1 == addPrefixPegs(pegs, digits, [results |-> <<>>, seen |-> {}])
      st2 == addPrefixLengths(Min(Len(digits) - 1, PARTIAL_MAX_PREFIX), digits, dictionary, system, mr, st1)
  IN Slice(StableSort(st2.results, "findPartialMatches"), 0, mr)

\* ------------------------------------ useSegmentMatches.ts: buildSplitRows
\* the number of splits buildSplitRows asks for: getDisplaySplits(digits, 100)
SPLIT_ROWS_MAX_SPLITS == 100

\* the number of matches shown per segment
SEGMENT_DISPLAY == 5

\* the default of maxParts of generateAllSplits
DEFAULT_MAX_PARTS == 4

RECURSIVE Product(_)
Product(ns) == IF ns = <<>> THEN 1 ELSE Head(ns) * Product(Tail(ns))

\* the segments of one split: the matches of each part
rowSegments(split, dictionary, system, pegs) ==
  [n \in 1..Len(split.parts) |->
     LET matches == getMatchesForDigits(split.parts[n], dictionary, system, pegs)
     IN [digits |-> split.parts[n], matches |-> Slice(matches, 0, SEGMENT_DISPLAY), hasMore |-> Len(matches) > SEGMENT_DISPLAY,
         count |-> Len(matches)]]

exceedsLimit_never(totalCombinations, minCombinationsForRow, limit, result) == FALSE

\* totalCombinations + minCombinationsForRow > maxCombinations && result.length > 0
exceedsLimit(totalCombinations, minCombinationsForRow, limit, result) ==
  totalCombinations + minCombinationsForRow > limit /\ Len(result) > 0

RECURSIVE buildRowsLoop(_, _, _, _, _, _, _)
\* the loop of buildSplitRows over the splits, with result and
\* totalCombinations so far
buildRowsLoop(splits, dictionary, system, pegs, limit, result, totalCombinations) ==
  IF splits = <<>> THEN result
  ELSE LET split == Head(splits)
           counted == rowSegments(split, dictionary, system, pegs)
           allHaveMatches == \A n \in 1..Len(counted) : counted[n].count # 0
           minCombinationsForRow == Product([n \in 1..Len(counted) |-> Min(counted[n].count, SEGMENT_DISPLAY)])
           segments == [n \in 1..Len(counted) |-> [digits |-> counted[n].digits, matches |-> counted[n].matches, hasMore |-> counted[n].hasMore]]
       IN IF ~allHaveMatches
          THEN buildRowsLoop(Tail(splits), dictionary, system, pegs, limit, result, totalCombinations)
          ELSE IF exceedsLimit(totalCombinations, minCombinationsForRow, limit, result)
          THEN result
          ELSE buildRowsLoop(Tail(splits), dictionary, system, pegs, limit,
                             Append(result, [pattern |-> split.pattern, parts |-> split.parts, segments |-> segments]),
                             totalCombinations + minCombinationsForRow)

buildSplitRows(digits, dictionary, system, pegs, limit) ==
  IF Len(digits) = 0 THEN <<>>
  ELSE buildRowsLoop(getDisplaySplits(digits, SPLIT_ROWS_MAX_SPLITS), dictionary, system, pegs, limit, <<>>, 0)

\* ---------------------------------------------- specification: matchers
\* the digits of the queried strings: 1 is bridge D and 7 is bridge K in
\* both systems
SearchDigits == {"1", "7"}

tie == <<"t","i","e">>

toe == <<"t","o","e">>

tea == <<"t","e","a">>

key == <<"k","e","y">>

eye == <<"e","y","e">>

dog == <<"d","o","g">>

duck == <<"d","u","c","k">>

deck == <<"d","e","c","k">>

dock == <<"d","o","c","k">>

dagger == <<"d","a","g","g","e","r">>

tack == <<"t","a","c","k">>

cat == <<"c","a","t">>

kit == <<"k","i","t">>

cats == <<"c","a","t","s">>

\* dictionaries in the format of dictionary-en_GB.json; the entry
\* "DK": dog, duck, deck, dock, dagger is the example of dict-generator.ts
Dictionaries ==
  { [code \in { <<"D">>, <<"K">>, <<"D","K">>, <<"K","D">> } |->
       CASE code = <<"D">> -> <<tie, toe>>
         [] code = <<"K">> -> <<key>>
         [] code = <<"D","K">> -> <<dog, duck, deck, dock, dagger, tack>>
         [] code = <<"K","D">> -> <<cat, kit>>],
    [code \in { <<"K">>, <<"D","K">>, <<"D","K","D">> } |->
       CASE code = <<"K">> -> <<key>>
         [] code = <<"D","K">> -> <<dagger>>
         [] code = <<"D","K","D">> -> << <<"t","i","c","k","e","t">> >>] }

\* word lists in the format of wordList: {word, frequency} entries
WordLists ==
  { << [word |-> tie, frequency |-> 3], [word |-> key, frequency |-> 2], [word |-> dog, frequency |-> 4],
       [word |-> eye, frequency |-> 1], [word |-> cat, frequency |-> 5], [word |-> toe, frequency |-> 7],
       [word |-> dagger, frequency |-> 8] >>,
    << [word |-> dog, frequency |-> 4], [word |-> cats, frequency |-> 6], [word |-> duck, frequency |-> 9] >> }

\* custom pegs (the fields of a Favorite the engine reads): consistent
\* single-word pegs, a peg whose digits differ from its word's encoding
\* (dog encodes to 17), and a two-word favourite
PegPool ==
  { [digits |-> <<"1">>, words |-> <<tea>>],
    [digits |-> <<"1","7">>, words |-> <<tack>>],
    [digits |-> <<"7","1">>, words |-> <<dog>>],
    [digits |-> <<"1","7">>, words |-> <<tie, key>>] }

\* the maxResults useMnemonicMatcher passes to findWordCombinations
DEFAULT_MAX_RESULTS == 20

\* lists of distinct pegs
PegLists == {pl \in StringsOver(PegPool, 0, MaxPegs) : \A i, j \in 1..Len(pl) : i # j => pl[i] # pl[j]}

InitSearch ==
  /\ called = {}
  /\ ExtraIdle
  /\ targetDigits \in StringsOver(SearchDigits, 0, MaxTarget)
  /\ maxResults \in 1..MaxResults \cup {DEFAULT_MAX_RESULTS}
  /\ activeSystem \in Systems
  /\ loadedDictionary \in Dictionaries
  /\ wordListData \in WordLists
  /\ customPegs \in PegLists
  /\ matcherOut = NotRun /\ segmentOut = NotRun /\ pc = "idle"
  /\ wordMap = <<>> /\ queue = <<>> /\ bestWeightToPosition = <<>> /\ results = <<>> /\ seen = {}
  /\ SplitIdle
  /\ DivIdle

\* useMemo(() => buildWordDigitCache(system), [system]): the cache is built
\* once per system and word list
wordCache == [sys \in Systems |-> [wl \in WordLists |-> buildWordDigitCache(wl, sys)]]

\* useMnemonicMatcher: findWordCombinations on the cache of the system
CallFindWordCombinations ==
  /\ called = {}
  /\ called' = {"findWordCombinations"}
  /\ matcherOut' = findWordCombinations(targetDigits, wordCache[activeSystem][wordListData], customPegs, maxResults)
  /\ UNCHANGED <<targetDigits, maxResults, splitVars, divVars, inputVars, extraVars, segmentOut, pc, wordMap, queue, bestWeightToPosition, results, seen>>

CallGetMatchesForDigits ==
  /\ called = {}
  /\ called' = {"getMatchesForDigits"}
  /\ segmentOut' = getMatchesForDigits(targetDigits, loadedDictionary, activeSystem, customPegs)
  /\ UNCHANGED <<targetDigits, maxResults, splitVars, divVars, inputVars, extraVars, matcherOut, pc, wordMap, queue, bestWeightToPosition, results, seen>>

CallFindPartialMatches ==
  /\ called = {}
  /\ called' = {"findPartialMatches"}
  /\ partialOut' = findPartialMatches(targetDigits, loadedDictionary, activeSystem, customPegs, maxResults)
  /\ UNCHANGED <<targetDigits, maxResults, splitVars, divVars, inputVars, searchVars, encVars, bridgeVars, pegVars,
               loadVars, uiVars, lateVars, rowsOut, maxCombinations>>

CallBuildSplitRows ==
  /\ called = {}
  /\ called' = {"buildSplitRows"}
  /\ rowsOut' = buildSplitRows(targetDigits, loadedDictionary, activeSystem, customPegs, maxCombinations)
  /\ UNCHANGED <<targetDigits, maxResults, splitVars, divVars, inputVars, searchVars, encVars, bridgeVars, pegVars,
               loadVars, uiVars, lateVars, partialOut, maxCombinations>>

\* generateAllSplits(digits) with the default maxParts
CallGenerateAllSplitsDefault ==
  /\ called = {}
  /\ called' = {"generateAllSplits"}
  /\ splitsOut' = generateAllSplits(targetDigits, DEFAULT_MAX_PARTS)
  /\ UNCHANGED <<targetDigits, maxResults, maxParts, maxSplits, displayOut, divVars, inputVars, searchVars, extraVars>>

loopContinues_noCap(q, rs, mr) == Len(q) > 0

\* while (queue.length > 0 && results.length < maxResults)
loopContinues(q, rs, mr) == Len(q) > 0 /\ Len(rs) < mr

\* findOptimalCombinations up to the while loop
FindOptimalStart ==
  /\ called = {}
  /\ called' = {"findOptimalCombinations"}
  /\ IF Len(targetDigits) = 0
     THEN /\ pc' = "returned"
          /\ UNCHANGED <<wordMap, queue, bestWeightToPosition>>
     ELSE /\ pc' = "loop"
          /\ wordMap' = buildWordMap(targetDigits, loadedDictionary, activeSystem, customPegs)
          /\ queue' = <<[position |-> 0, totalWeight |-> 0, words |-> <<>>]>>
          /\ bestWeightToPosition' = [pos \in {0} |-> 0]
  /\ results' = <<>>
  /\ seen' = {}
  /\ UNCHANGED <<targetDigits, maxResults, splitVars, divVars, inputVars, extraVars, matcherOut, segmentOut>>

\* one iteration of the while loop of findOptimalCombinations
FindOptimalStep ==
  /\ pc = "loop"
  /\ loopContinues(queue, results, maxResults)
  /\ LET sorted == StableSort(queue, "findOptimalCombinations")
         current == Head(sorted)
         rest == Tail(sorted)
     IN IF current.position = Len(targetDigits)
        THEN LET wordKey == Join([i \in 1..Len(current.words) |-> current.words[i].word], "+")
             IN /\ queue' = rest
                /\ seen' = seen \cup {wordKey}
                /\ results' = IF wordKey \in seen THEN results ELSE Append(results, DijkstraResult(current, targetDigits))
                /\ UNCHANGED bestWeightToPosition
        ELSE LET after == expand(current, wordMap[current.position], rest, bestWeightToPosition)
             IN /\ queue' = after.queue
                /\ bestWeightToPosition' = after.bestWeightToPosition
                /\ UNCHANGED <<results, seen>>
  /\ UNCHANGED <<called, targetDigits, maxResults, splitVars, divVars, inputVars, extraVars, matcherOut, segmentOut, pc, wordMap>>

\* the while condition fails: return results
FindOptimalReturn ==
  /\ pc = "loop"
  /\ ~loopContinues(queue, results, maxResults)
  /\ pc' = "returned"
  /\ UNCHANGED <<called, targetDigits, maxResults, splitVars, divVars, inputVars, extraVars, matcherOut, segmentOut, wordMap, queue, bestWeightToPosition, results, seen>>

NextSearch ==
  \/ CallFindWordCombinations \/ CallGetMatchesForDigits \/ FindOptimalStart \/ FindOptimalStep \/ FindOptimalReturn
  \/ CallFindPartialMatches \/ CallBuildSplitRows \/ CallGenerateAllSplitsDefault

SpecSearch == InitSearch /\ [][NextSearch]_vars

\* --------------------------------------------------- claims on matchers
MatcherReturned == "findWordCombinations" \in called

SegmentReturned == "getMatchesForDigits" \in called

OptimalReturned == pc = "returned"

\* concatenation of encode(word, system) over the words of a result
EncodedWords(r) == Flatten([k \in 1..Len(r.words) |-> wordToDigits(r.words[k], activeSystem)])

\* a single-word custom peg states `part` as the digits of `word`
PegStates(word, part) == \E i \in 1..Len(customPegs) : customPegs[i].words = <<word>> /\ customPegs[i].digits = part

\* the dictionary lists `word` among the first 5 words of a bridge code
\* whose digit translation is `part`
DictionaryLists(word, part) ==
  \E code \in DOMAIN loadedDictionary :
     /\ bridgeCodeToDigits(code, activeSystem) = part
     /\ \E k \in 1..Min(TOP_WORDS, Len(loadedDictionary[code])) : loadedDictionary[code][k] = word

\* the ways of cutting the queried digits into n consecutive non-empty parts
CutsInto(n) == {PartsOfCuts(targetDigits, cuts) : cuts \in {c \in SUBSET (1..(Len(targetDigits) - 1)) : Cardinality(c) = n - 1}}

\* a whole peg (any number of words) states the queried digits
WholePeg(r) == \E i \in 1..Len(customPegs) : customPegs[i].words = r.words /\ customPegs[i].digits = targetDigits

\* C1 (as stated): for every full-match result of findOptimalCombinations
\* and findWordCombinations, concatenating encode(word, system) over its
\* words equals the queried digit string, also for results with a peg word.
C1_EncodingsConcatenate ==
  /\ OptimalReturned => \A i \in 1..Len(results) : results[i].isFullMatch => EncodedWords(results[i]) = targetDigits
  /\ MatcherReturned => \A i \in 1..Len(matcherOut) : matcherOut[i].isFullMatch => EncodedWords(matcherOut[i]) = targetDigits

\* C1 (amended): every full-match result covers the queried digits when
\* each word is read by the digits it was matched on: the digit string can
\* be cut into consecutive non-empty parts, one per word, such that each
\* word is the word of a single-word peg that states its part, or encodes
\* to its part (findWordCombinations), or is listed in the dictionary
\* under a bridge code that translates to its part
\* (findOptimalCombinations); a peg that states the whole digit string
\* contributes its whole word list.  The concatenation of encode(word)
\* equals the digit string for every full match of findWordCombinations
\* that is not peg-sourced.
C1_WordsCoverDigits ==
  /\ OptimalReturned =>
       \A i \in 1..Len(results) : results[i].isFullMatch =>
          \E parts \in CutsInto(Len(results[i].words)) :
             \A k \in 1..Len(parts) : PegStates(results[i].words[k], parts[k]) \/ DictionaryLists(results[i].words[k], parts[k])
  /\ MatcherReturned =>
       \A i \in 1..Len(matcherOut) : matcherOut[i].isFullMatch =>
          /\ ~matcherOut[i].isCustomPeg => EncodedWords(matcherOut[i]) = targetDigits
          /\ \/ WholePeg(matcherOut[i])
             \/ \E parts \in CutsInto(Len(matcherOut[i].words)) :
                   \A k \in 1..Len(parts) : PegStates(matcherOut[i].words[k], parts[k]) \/ wordToDigits(matcherOut[i].words[k], activeSystem) = parts[k]

\* a returned path of two words, a dictionary word followed by a peg word
C1_Witness ==
  /\ OptimalReturned
  /\ \E i \in 1..Len(results) :
       /\ results[i].isFullMatch
       /\ Len(results[i].words) = 2
       /\ DictionaryLists(results[i].words[1], <<"1", "7">>)
       /\ PegStates(results[i].words[2], <<"1">>)

SingleWordFull(r) == r.isFullMatch /\ Len(r.words) = 1

\* C2: a peg word ranks strictly before a different dictionary word for the
\* same digits: in getMatchesForDigits every peg-sourced match precedes
\* every dictionary match, and in findOptimalCombinations and
\* findWordCombinations the single-word full match made of a peg precedes
\* every single-word full match made of a dictionary word.
C2_PegBeforeDictionaryWord ==
  /\ SegmentReturned => \A i, j \in 1..Len(segmentOut) : (segmentOut[i].isCustomPeg /\ ~segmentOut[j].isCustomPeg) => i < j
  /\ OptimalReturned => \A i, j \in 1..Len(results) : (SingleWordFull(results[i]) /\ results[i].isCustomPeg /\ SingleWordFull(results[j]) /\ ~results[j].isCustomPeg) => i < j
  /\ MatcherReturned => \A i, j \in 1..Len(matcherOut) : (SingleWordFull(matcherOut[i]) /\ matcherOut[i].isCustomPeg /\ SingleWordFull(matcherOut[j]) /\ ~matcherOut[j].isCustomPeg) => i < j

\* the search returned the peg word and a different dictionary word for the
\* same two digits
C2_Witness ==
  /\ OptimalReturned
  /\ Len(results) >= 2
  /\ SingleWordFull(results[1]) /\ results[1].isCustomPeg
  /\ SingleWordFull(results[2]) /\ ~results[2].isCustomPeg
  /\ results[1].words # results[2].words

\* C4: in the list returned by findWordCombinations every peg-sourced full
\* match precedes every non-peg full match, and every full match precedes
\* every partial match.
C4_PegFullThenFullThenPartial ==
  MatcherReturned =>
    \A i, j \in 1..Len(matcherOut) :
       /\ (matcherOut[i].isFullMatch /\ matcherOut[i].isCustomPeg /\ matcherOut[j].isFullMatch /\ ~matcherOut[j].isCustomPeg) => i < j
       /\ (matcherOut[i].isFullMatch /\ ~matcherOut[j].isFullMatch) => i < j

C4_Witness ==
  /\ MatcherReturned
  /\ \E i, j, k \in 1..Len(matcherOut) :
       /\ i < j /\ j < k
       /\ matcherOut[i].isFullMatch /\ matcherOut[i].isCustomPeg
       /\ matcherOut[j].isFullMatch /\ ~matcherOut[j].isCustomPeg
       /\ ~matcherOut[k].isFullMatch /\ ~matcherOut[k].isCustomPeg

\* the comparator of the claim as a rank: peg-sourced, then full, then
\* number of words, then weight
RankBefore(a, b) ==
  IF a.isCustomPeg # b.isCustomPeg THEN a.isCustomPeg
  ELSE IF a.isFullMatch # b.isFullMatch THEN a.isFullMatch
  ELSE IF Len(a.words) # Len(b.words) THEN Len(a.words) < Len(b.words)
  ELSE a.combinedFrequency <= b.combinedFrequency

\* C5 (as stated): the list returned by findWordCombinations is ordered by
\* the comparator peg-sourced first, then full before partial, then fewer
\* words, then lower weight, over the whole list; so a peg-sourced partial
\* match precedes every non-peg candidate.
C5_OrderedByComparator ==
  MatcherReturned => \A i, j \in 1..Len(matcherOut) : i < j => RankBefore(matcherOut[i], matcherOut[j])

\* C5 (amended): the comparator orders the full matches only: among full
\* matches peg-sourced come first, then fewer words, then lower weight;
\* the partial matches are appended after the sort, so they follow every
\* full match, the peg-sourced partial matches before the other partial
\* matches.
C5_FullMatchesOrderedPartialsAppended ==
  MatcherReturned =>
    \A i, j \in 1..Len(matcherOut) : i < j =>
       /\ (matcherOut[i].isFullMatch /\ matcherOut[j].isFullMatch) => RankBefore(matcherOut[i], matcherOut[j])
       /\ ~matcherOut[i].isFullMatch => (~matcherOut[j].isFullMatch /\ (matcherOut[j].isCustomPeg => matcherOut[i].isCustomPeg))

\* a two-word peg-sourced full match, a one-word full match, and a
\* peg-sourced partial match that comes after the non-peg full match
C5_Witness ==
  /\ MatcherReturned
  /\ \E i, j, k \in 1..Len(matcherOut) :
       /\ i < j /\ j < k
       /\ matcherOut[i].isFullMatch /\ Len(matcherOut[i].words) = 2 /\ matcherOut[i].isCustomPeg
       /\ matcherOut[j].isFullMatch /\ Len(matcherOut[j].words) = 1 /\ ~matcherOut[j].isCustomPeg
       /\ ~matcherOut[k].isFullMatch /\ matcherOut[k].isCustomPeg

\* ------------------------------------------- specification: wordToDigits
MaxWord == 3

\* letters of the scanned words: the patterns sc, ss, ck, ch, sh, the
\* unregistered sch, doubled consonants, a vowel and an upper-case letter
EncodeLetters == {"s", "c", "h", "k", "a", "S"}

\* one iteration of the while loop that leaves the index on a character
\* without a digit
wordToDigitsStep_noAdvance(system, lowerWord, i, digits) ==
  IF i > 0 /\ lowerWord[i + 1] = lowerWord[i] /\ consonantToDigit(system, <<lowerWord[i + 1]>>) # <<>>
  THEN [i |-> i + 1, digits |-> digits]
  ELSE LET matching == MatchingPatterns(system, lowerWord, i + 1)
       IN IF matching # {}
          THEN LET k == CHOOSE m \in matching : \A n \in matching : m <= n
               IN [i |-> i + Len(multiPatterns[k]), digits |-> digits \o consonantToDigit(system, multiPatterns[k])]
          ELSE IF consonantToDigit(system, <<lowerWord[i + 1]>>) # <<>>
          THEN [i |-> i + 1, digits |-> digits \o consonantToDigit(system, <<lowerWord[i + 1]>>)]
          ELSE [i |-> i, digits |-> digits]

\* one iteration of the while loop of wordToDigits at index i (0-based):
\* the values of i and digits after it
wordToDigitsStep(system, lowerWord, i, digits) ==
  IF i > 0 /\ lowerWord[i + 1] = lowerWord[i] /\ consonantToDigit(system, <<lowerWord[i + 1]>>) # <<>>
  THEN [i |-> i + 1, digits |-> digits]
  ELSE LET matching == MatchingPatterns(system, lowerWord, i + 1)
       IN IF matching # {}
          THEN LET k == CHOOSE m \in matching : \A n \in matching : m <= n
               IN [i |-> i + Len(multiPatterns[k]), digits |-> digits \o consonantToDigit(system, multiPatterns[k])]
          ELSE [i |-> i + 1, digits |-> digits \o consonantToDigit(system, <<lowerWord[i + 1]>>)]

InitEncode ==
  /\ called = {}
  /\ targetDigits = <<>>
  /\ maxResults = 0
  /\ SplitIdle
  /\ DivIdle
  /\ activeSystem \in Systems
  /\ loadedDictionary = <<>> /\ wordListData = <<>> /\ customPegs = <<>>
  /\ matcherOut = NotRun /\ segmentOut = NotRun /\ pc = "idle"
  /\ wordMap = <<>> /\ queue = <<>> /\ bestWeightToPosition = <<>> /\ results = <<>> /\ seen = {}
  /\ OthersIdle("wordToDigits")
  /\ encWord \in StringsOver(EncodeLetters, 0, MaxWord)
  /\ encLowerWord = <<>> /\ encI = 0 /\ encDigits = <<>> /\ encPc = "idle"

\* wordToDigits up to the while loop
WordToDigitsStart ==
  /\ encPc = "idle"
  /\ called' = called \cup {"wordToDigits"}
  /\ encLowerWord' = toLowerCase(encWord)
  /\ encDigits' = <<>>
  /\ encI' = 0
  /\ encPc' = "loop"
  /\ UNCHANGED <<encFrame, encWord>>

\* one iteration of the while loop
WordToDigitsStep ==
  /\ encPc = "loop"
  /\ encI < Len(encLowerWord)
  /\ LET after == wordToDigitsStep(activeSystem, encLowerWord, encI, encDigits)
     IN /\ encI' = after.i
        /\ encDigits' = after.digits
  /\ UNCHANGED <<called, encFrame, encWord, encLowerWord, encPc>>

\* the while condition fails: return digits
WordToDigitsReturn ==
  /\ encPc = "loop"
  /\ ~(encI < Len(encLowerWord))
  /\ encPc' = "returned"
  /\ UNCHANGED <<called, encFrame, encWord, encLowerWord, encI, encDigits>>

NextEncode == WordToDigitsStart \/ WordToDigitsStep \/ WordToDigitsReturn

SpecEncode == InitEncode /\ [][NextEncode]_vars

\* a call of wordToDigits runs to its end: no step of the scan is withheld
SpecEncodeFair == SpecEncode /\ WF_vars(NextEncode)

\* ---------------------------------------------------- claims on encoding
\* the patterns listed in the table of the active system
ListedPatterns == DOMAIN mnemonicSystems[activeSystem].consonantToDigit

\* C11: in the table of each system every digit 0..9 lists at least one
\* pattern, no pattern is listed under two different digits, and
\* consonantToDigit maps every pattern listed under a digit to that digit
C11_TablesInverse ==
  LET table == mnemonicSystems[activeSystem].mappings
  IN /\ \A n \in 1..10 : Len(table[DigitOrder[n]]) >= 1
     /\ \A pattern \in ListedPatterns : Cardinality(ListedUnder(table, pattern)) = 1
     /\ \A n \in 1..10 : \A k \in 1..Len(table[DigitOrder[n]]) :
          consonantToDigit(activeSystem, table[DigitOrder[n]][k]) = <<DigitOrder[n]>>

EncodeReturned == encPc = "returned"

\* the word has no letter and no multi-letter pattern mapped to a digit
NothingMapped(w) ==
  /\ \A n \in 1..Len(w) : consonantToDigit(activeSystem, <<toLowerCase(w)[n]>>) = <<>>
  /\ \A n \in 1..Len(w) : MatchingPatterns(activeSystem, toLowerCase(w), n) = {}

\* C14: the scan of wordToDigits terminates for every word and system, its
\* index strictly increases on every iteration, and it returns a string of
\* digits that is a function of (word, system) alone and is empty when the
\* word has no letter or pattern mapped to a digit
C14_EncodeTotal ==
  /\ [][encPc = "loop" /\ encPc' = "loop" => encI' > encI /\ encI' <= Len(encLowerWord)]_vars
  /\ [](EncodeReturned =>
          /\ \A n \in 1..Len(encDigits) : \E d \in 1..10 : encDigits[n] = DigitOrder[d]
          /\ encDigits = wordToDigits(encWord, activeSystem)
          /\ (NothingMapped(encWord) => encDigits = <<>>))
  /\ <>EncodeReturned

\* the scan of "Sch" returned: the upper-case letter is lowered, sch is not
\* registered, sc gives one digit and h none
C14_Witness == EncodeReturned /\ encWord = <<"S", "c", "h">> /\ Len(encDigits) = 1 /\ encI = 3

\* -------------------------------------- specification: dictionaryService
MaxCode == 2

\* the 10 bridge symbols
BridgeSymbols == {"D", "N", "M", "R", "L", "J", "K", "F", "P", "S"}

AllDigits == {DigitOrder[n] : n \in 1..10}

\* the orders in which Object.entries can visit the keys of an object
Orders(keys) == {o \in [1..Cardinality(keys) -> keys] : \A m, n \in 1..Cardinality(keys) : m # n => o[m] # o[n]}

\* findPrefixMatches of dictionaryService, with the order in which
\* Object.entries(dictionary) visits the keys
dictionaryFindPrefixMatches(dictionary, order, digits, system) ==
  LET entries == [n \in 1..Len(order) |-> [bridgeCode |-> order[n], digits |-> bridgeCodeToDigits(order[n], system), words |-> dictionary[order[n]]]]
      keep == [n \in 1..Len(order) |->
                 /\ Len(entries[n].bridgeCode) > 0 /\ Len(entries[n].words) > 0
                 /\ StartsWith(digits, entries[n].digits) /\ Len(entries[n].digits) > 0 /\ Len(entries[n].digits) <= Len(digits)]
  IN StableSort(SelectSeq2(entries, keep), "dictionaryService")

\* dictionaries with a code that is a prefix of another code and a code
\* with an empty word list
BridgeDictionaries ==
  { [code \in { <<"D">>, <<"K">>, <<"D","K">>, <<"D","D">>, <<"K","D">> } |->
       CASE code = <<"D">> -> <<tie, toe>>
         [] code = <<"K">> -> <<key>>
         [] code = <<"D","K">> -> <<dog, duck>>
         [] code = <<"D","D">> -> <<>>
         [] code = <<"K","D">> -> <<cat>>],
    [code \in { <<"P">>, <<"S">>, <<"S","N">> } |->
       CASE code = <<"P">> -> << <<"p","i","e">> >>
         [] code = <<"S">> -> << <<"s","e","a">> >>
         [] code = <<"S","N">> -> << <<"s","u","n">>, <<"s","o","n">> >>] }

\* the key orders of each dictionary
EntryOrders == [dictionary \in BridgeDictionaries |-> Orders(DOMAIN dictionary)]

\* a call chain starts from a digit string or from a bridge code
InitBridge ==
  /\ called = {}
  /\ maxResults = 0
  /\ SplitIdle
  /\ DivIdle
  /\ OthersIdle("dictionaryService")
  /\ activeSystem \in Systems
  /\ loadedDictionary \in BridgeDictionaries
  /\ wordListData = <<>> /\ customPegs = <<>>
  /\ matcherOut = NotRun /\ segmentOut = NotRun /\ pc = "idle"
  /\ wordMap = <<>> /\ queue = <<>> /\ bestWeightToPosition = <<>> /\ results = <<>> /\ seen = {}
  /\ \/ targetDigits \in StringsOver(AllDigits, 0, MaxCode) /\ bridgeIn = <<>>
     \/ targetDigits = <<>> /\ bridgeIn \in StringsOver(BridgeSymbols, 0, MaxCode)
  /\ toCodeOut = NotRun /\ toDigitsOut = NotRun /\ backDigitsOut = NotRun /\ backCodeOut = NotRun
  /\ wordsFor = NotRun /\ wordsOut = NotRun /\ prefixOut = NotRun

CallDigitsToBridgeCode ==
  /\ "digitsToBridgeCode" \notin called /\ "findPrefixMatches" \notin called
  /\ called' = called \cup {"digitsToBridgeCode"}
  /\ toCodeOut' = digitsToBridgeCode(targetDigits, activeSystem)
  /\ UNCHANGED <<bridgeFrame, bridgeIn, toDigitsOut, backDigitsOut, backCodeOut, wordsFor, wordsOut, prefixOut>>

CallBridgeCodeToDigits ==
  /\ "bridgeCodeToDigits" \notin called /\ "findPrefixMatches" \notin called
  /\ called' = called \cup {"bridgeCodeToDigits"}
  /\ toDigitsOut' = bridgeCodeToDigits(bridgeIn, activeSystem)
  /\ UNCHANGED <<bridgeFrame, bridgeIn, toCodeOut, backDigitsOut, backCodeOut, wordsFor, wordsOut, prefixOut>>

\* bridgeCodeToDigits on the code digitsToBridgeCode returned
RoundTripDigits ==
  /\ "digitsToBridgeCode" \in called /\ "bridgeCodeToDigits(digitsToBridgeCode)" \notin called
  /\ called' = called \cup {"bridgeCodeToDigits(digitsToBridgeCode)"}
  /\ backDigitsOut' = bridgeCodeToDigits(toCodeOut, activeSystem)
  /\ UNCHANGED <<bridgeFrame, bridgeIn, toCodeOut, toDigitsOut, backCodeOut, wordsFor, wordsOut, prefixOut>>

\* digitsToBridgeCode on the digits bridgeCodeToDigits returned
RoundTripCode ==
  /\ "bridgeCodeToDigits" \in called /\ "digitsToBridgeCode(bridgeCodeToDigits)" \notin called
  /\ called' = called \cup {"digitsToBridgeCode(bridgeCodeToDigits)"}
  /\ backCodeOut' = digitsToBridgeCode(toDigitsOut, activeSystem)
  /\ UNCHANGED <<bridgeFrame, bridgeIn, toCodeOut, toDigitsOut, backDigitsOut, wordsFor, wordsOut, prefixOut>>

\* findWordsForDigits on the digit string or on the translation of the code
CallFindWordsForDigits ==
  /\ "findWordsForDigits" \notin called /\ "findPrefixMatches" \notin called
  /\ \E digits \in {targetDigits} \cup (IF "bridgeCodeToDigits" \in called THEN {toDigitsOut} ELSE {}) :
       /\ wordsFor' = digits
       /\ wordsOut' = findWordsForDigits(loadedDictionary, digits, activeSystem)
  /\ called' = called \cup {"findWordsForDigits"}
  /\ UNCHANGED <<bridgeFrame, bridgeIn, toCodeOut, toDigitsOut, backDigitsOut, backCodeOut, prefixOut>>

CallDictionaryFindPrefixMatches ==
  /\ called = {}
  /\ called' = {"findPrefixMatches"}
  /\ \E order \in EntryOrders[loadedDictionary] :
       prefixOut' = dictionaryFindPrefixMatches(loadedDictionary, order, targetDigits, activeSystem)
  /\ UNCHANGED <<bridgeFrame, bridgeIn, toCodeOut, toDigitsOut, backDigitsOut, backCodeOut, wordsFor, wordsOut>>

NextBridge ==
  \/ CallDigitsToBridgeCode \/ CallBridgeCodeToDigits \/ RoundTripDigits \/ RoundTripCode
  \/ CallFindWordsForDigits \/ CallDictionaryFindPrefixMatches

SpecBridge == InitBridge /\ [][NextBridge]_vars

\* ------------------------------------------- claims on dictionaryService
\* C12: digitsToBridgeCode and bridgeCodeToDigits translate character by
\* character and undo each other on digit strings and on strings over the
\* 10 bridge symbols; findWordsForDigits on the translation of a dictionary
\* key returns the word list stored under that key, and the empty list when
\* the code of the digits is not a key
C12_TranslationsInverse ==
  /\ "digitsToBridgeCode" \in called =>
       /\ Len(toCodeOut) = Len(targetDigits)
       /\ \A n \in 1..Len(toCodeOut) : toCodeOut[n] \in BridgeSymbols /\ <<toCodeOut[n]>> = DIGIT_TO_BRIDGE(activeSystem, targetDigits[n])
  /\ "bridgeCodeToDigits" \in called =>
       /\ Len(toDigitsOut) = Len(bridgeIn)
       /\ \A n \in 1..Len(toDigitsOut) : toDigitsOut[n] \in AllDigits /\ <<toDigitsOut[n]>> = BRIDGE_TO_DIGIT(activeSystem, bridgeIn[n])
  /\ "bridgeCodeToDigits(digitsToBridgeCode)" \in called => backDigitsOut = targetDigits
  /\ "digitsToBridgeCode(bridgeCodeToDigits)" \in called => backCodeOut = bridgeIn
  /\ "findWordsForDigits" \in called =>
       /\ \A code \in DOMAIN loadedDictionary :
            wordsFor = bridgeCodeToDigits(code, activeSystem) => wordsOut = loadedDictionary[code]
       /\ (\A code \in DOMAIN loadedDictionary : wordsFor # bridgeCodeToDigits(code, activeSystem)) => wordsOut = <<>>

\* the key DK was translated to digits, translated back, and looked up
C12_Witness ==
  /\ {"digitsToBridgeCode(bridgeCodeToDigits)", "findWordsForDigits"} \subseteq called
  /\ bridgeIn = <<"D", "K">> /\ bridgeIn \in DOMAIN loadedDictionary
  /\ toDigitsOut = <<"1", "7">> /\ backCodeOut = bridgeIn
  /\ wordsFor = toDigitsOut /\ wordsOut = <<dog, duck>>

\* the code is stored with words and its digits are a non-empty prefix
MatchesPrefix(code) ==
  /\ loadedDictionary[code] # <<>>
  /\ Len(bridgeCodeToDigits(code, activeSystem)) > 0
  /\ StartsWith(targetDigits, bridgeCodeToDigits(code, activeSystem))

C15_EmptyDigitsEmptyResult ==
  Len(targetDigits) = 0 =>
    /\ MatcherReturned => matcherOut = <<>>
    /\ OptimalReturned => results = <<>>
    /\ "findPartialMatches" \in called => partialOut = <<>>
    /\ SegmentReturned => segmentOut = <<>>
    /\ "buildSplitRows" \in called => rowsOut = <<>>
    /\ "generateAllSplits" \in called => splitsOut = <<>>

\* an entry point returned for the empty digit string and two pegs
C15_Witness ==
  /\ Len(targetDigits) = 0 /\ Len(customPegs) = 2
  /\ \/ MatcherReturned \/ OptimalReturned \/ SegmentReturned
     \/ called \cap {"findPartialMatches", "buildSplitRows", "generateAllSplits"} # {}

\* no word of the word list encodes to a prefix of the digit string
NoWordPrefix ==
  \A n \in 1..Len(wordCache[activeSystem][wordListData]) :
    ~StartsWith(targetDigits, wordCache[activeSystem][wordListData][n].digits)

\* no peg's digits are a prefix of the digit string
NoPegPrefix == \A n \in 1..Len(customPegs) : ~StartsWith(targetDigits, customPegs[n].digits)

\* C16: when no word encodes to a prefix of the digit string, every
\* result of findWordCombinations is peg-sourced, and when in addition no
\* peg's digits are a prefix the result list is empty
C16_OnlyPegsWithoutWords ==
  MatcherReturned /\ NoWordPrefix =>
    /\ \A n \in 1..Len(matcherOut) : matcherOut[n].isCustomPeg
    /\ NoPegPrefix => matcherOut = <<>>

\* no word encodes to a prefix of 711; the peg 71 -> dog is returned as a
\* partial match
C16_Witness ==
  /\ MatcherReturned /\ NoWordPrefix /\ targetDigits = <<"7", "1", "1">>
  /\ Len(matcherOut) = 1 /\ matcherOut[1].words = <<dog>> /\ matcherOut[1].isCustomPeg /\ ~matcherOut[1].isFullMatch

\* --------------------------------------- specification: custom peg form
\* value.replace(/\D/g, '')
stripNonDigits(value) == SelectSeq2(value, [n \in 1..Len(value) |-> value[n] \in AllDigits])

\* value.toLowerCase().replace(/[^a-z]/g, '')
keepLetters(value) ==
  SelectSeq2(toLowerCase(value), [n \in 1..Len(value) |-> \E k \in 1..26 : LowerCaseLetters[k] = toLowerCase(value)[n]])

\* the kinds of warning validatePeg sets
WarnMismatch == <<"normally maps to other digits">>

WarnNoConsonants == <<"has no consonants that map to digits">>

\* validatePeg(d, w): the warning it sets (<<>> is null)
validatePeg(d, w, system) ==
  IF Len(d) = 0 \/ Len(w) = 0 THEN <<>>
  ELSE LET expectedDigits == wordToDigits(w, system)
       IN IF expectedDigits # d
          THEN IF Len(expectedDigits) > 0 THEN WarnMismatch ELSE WarnNoConsonants
          ELSE <<>>

\* addCustomPeg(digits, word, system) of useFavorites: the new favourite
\* is put first unless an equal one exists, as addFavorite does
addCustomPeg(prev, digits, word, system) ==
  LET favorite == [digits |-> digits, words |-> <<word>>, system |-> system, isCustomPeg |-> TRUE]
  IN IF \E n \in 1..Len(prev) : prev[n].digits = digits /\ prev[n].words = <<word>> /\ prev[n].system = system
     THEN prev
     ELSE <<favorite>> \o prev

\* getCustomPegs(system) of useFavorites: the custom pegs of the system
getCustomPegs(favs, system) == SelectSeq2(favs, [n \in 1..Len(favs) |-> favs[n].isCustomPeg /\ favs[n].system = system])

\* the values typed into the digits field and into the word field
PegDigitInputs == { <<>>, <<"7","1">>, <<"1","7">>, <<"7","a","1">> }

PegWordInputs == { <<>>, dog, <<"D","o","g","!">>, eye }

InitPeg ==
  /\ called = {}
  /\ targetDigits = <<>>
  /\ maxResults = 0
  /\ SplitIdle
  /\ DivIdle
  /\ OthersIdle("CustomPegEntry")
  /\ activeSystem \in Systems
  /\ loadedDictionary \in Dictionaries
  /\ wordListData = <<>> /\ customPegs = <<>>
  /\ matcherOut = NotRun /\ segmentOut = NotRun /\ pc = "idle"
  /\ wordMap = <<>> /\ queue = <<>> /\ bestWeightToPosition = <<>> /\ results = <<>> /\ seen = {}
  /\ entryDigits = <<>> /\ entryWord = <<>> /\ warning = <<>> /\ favorites = <<>> /\ lastEvent = "none"

handleDigitsChange ==
  \E value \in PegDigitInputs :
    /\ entryDigits' = stripNonDigits(value)
    /\ warning' = validatePeg(stripNonDigits(value), entryWord, activeSystem)
    /\ lastEvent' = "handleDigitsChange"
    /\ UNCHANGED <<pegFrame, called, targetDigits, customPegs, segmentOut, wordMap, entryWord, favorites>>

handleWordChange ==
  \E value \in PegWordInputs :
    /\ entryWord' = keepLetters(value)
    /\ warning' = validatePeg(entryDigits, keepLetters(value), activeSystem)
    /\ lastEvent' = "handleWordChange"
    /\ UNCHANGED <<pegFrame, called, targetDigits, customPegs, segmentOut, wordMap, entryDigits, favorites>>

\* handleSubmit, with handleAddPeg of FavoritesList and addCustomPeg behind
\* onAddPeg, and the custom pegs Index reads on the next render
handleSubmit ==
  /\ lastEvent' = "handleSubmit"
  /\ IF Len(entryDigits) > 0 /\ Len(entryWord) > 0
     THEN /\ favorites' = addCustomPeg(favorites, entryDigits, entryWord, activeSystem)
          /\ customPegs' = getCustomPegs(favorites', activeSystem)
          /\ entryDigits' = <<>>
          /\ entryWord' = <<>>
          /\ warning' = <<>>
     ELSE UNCHANGED <<favorites, customPegs, entryDigits, entryWord, warning>>
  /\ UNCHANGED <<pegFrame, called, targetDigits, segmentOut, wordMap>>

\* the engine is asked for the digits of one of the pegs: getMatchesForDigits
\* for the segment and buildWordMap for the search
QueryPegDigits ==
  \E n \in 1..Len(customPegs) :
    /\ targetDigits' = customPegs[n].digits
    /\ segmentOut' = getMatchesForDigits(customPegs[n].digits, loadedDictionary, activeSystem, customPegs)
    /\ wordMap' = buildWordMap(customPegs[n].digits, loadedDictionary, activeSystem, customPegs)
    /\ called' = {"getMatchesForDigits", "buildWordMap"}
    /\ lastEvent' = "query"
    /\ UNCHANGED <<pegFrame, customPegs, entryDigits, entryWord, warning, favorites>>

NextPeg == handleDigitsChange \/ handleWordChange \/ handleSubmit \/ QueryPegDigits

SpecPeg == InitPeg /\ [][NextPeg]_vars

\* ------------------------------------------------- claims on custom pegs
\* the peg is one of the custom pegs and its word does not encode to its digits
MismatchedPeg(n) == wordToDigits(customPegs[n].words[1], activeSystem) # customPegs[n].digits

\* C17: a submit with non-empty digits and word adds the peg whether or
\* not a warning is shown, and the engine matches every peg by its stated
\* digits: getMatchesForDigits(peg.digits) and buildWordMap(peg.digits)
\* hold the peg word, also when the word encodes to other digits
C17_MismatchedPegAccepted ==
  /\ [][lastEvent' = "handleSubmit" /\ Len(entryDigits) > 0 /\ Len(entryWord) > 0 =>
          /\ \E n \in 1..Len(customPegs') : customPegs'[n].digits = entryDigits /\ customPegs'[n].words = <<entryWord>>
          /\ warning' = <<>>]_vars
  /\ [](lastEvent = "query" =>
          \A n \in 1..Len(customPegs) :
            customPegs[n].digits = targetDigits =>
              /\ \E m \in 1..Len(segmentOut) : segmentOut[m] = [word |-> customPegs[n].words[1], isCustomPeg |-> TRUE]
              /\ \E m \in 1..Len(wordMap[0]) :
                   /\ wordMap[0][m].word = customPegs[n].words[1] /\ wordMap[0][m].isCustomPeg
                   /\ wordMap[0][m].digits = targetDigits)

\* the peg 71 -> dog (dog encodes to 17) was submitted and the engine
\* returns dog first for 71
C17_Witness ==
  /\ lastEvent = "query" /\ targetDigits = <<"7", "1">>
  /\ \E n \in 1..Len(customPegs) : customPegs[n].digits = targetDigits /\ customPegs[n].words = <<dog>> /\ MismatchedPeg(n)
  /\ segmentOut[1] = [word |-> dog, isCustomPeg |-> TRUE]
  /\ wordMap[0][1].word = dog

\* ------------------------------------------ specification: dictionary load
\* the number of loadDictionary calls in a session
MaxCalls == 3

\* the key of the metadata entry of dictionary-en_GB.json
MetadataKey == <<"_","m","e","t","a","d","a","t","a">>

\* const { _metadata, ...dictionary } = data
stripMetadata(data) == [code \in DOMAIN data \ {MetadataKey} |-> data[code]]

\* the JSON bodies the server answers with: a dictionary with its
\* _metadata entry, and a dictionary without one
FetchedBodies ==
  { [code \in { <<"D">>, <<"K">>, <<"D","K">>, <<"K","D">>, MetadataKey } |->
       CASE code = <<"D">> -> <<tie, toe>>
         [] code = <<"K">> -> <<key>>
         [] code = <<"D","K">> -> <<dog, duck, deck, dock, dagger, tack>>
         [] code = <<"K","D">> -> <<cat, kit>>
         [] code = MetadataKey -> <<"C","C","0">>],
    [code \in { <<"K">>, <<"D","K">>, <<"D","K","D">> } |->
       CASE code = <<"K">> -> <<key>>
         [] code = <<"D","K">> -> <<dagger>>
         [] code = <<"D","K","D">> -> << <<"t","i","c","k","e","t">> >>] }

\* the responses fetch resolves with: the dictionary file, a body that is
\* not JSON, and a response whose ok is false
Responses ==
  { [ok |-> TRUE, statusText |-> "OK", body |-> <<b>>] : b \in FetchedBodies }
    \cup { [ok |-> TRUE, statusText |-> "OK", body |-> <<>>],
           [ok |-> FALSE, statusText |-> "Not Found", body |-> <<>>] }

\* the chain fetch(...).then(...).then(...).catch(...) right after fetch is called
NewLoad == [stage |-> "fetching", response |-> <<>>, data |-> <<>>, value |-> <<>>, reason |-> ""]

\* the loads whose fetch has not settled
Outstanding == {k \in 1..Len(loads) : loads[k].stage = "fetching"}

\* the loads whose promise chain has not settled
InFlight == {k \in 1..Len(loads) : loads[k].stage \notin {"fulfilled", "rejected"}}

loadDictionary_noInFlightCheck(cached, promise) ==
  IF cached # <<>> THEN "cached" ELSE "fetch"

\* loadDictionary: the branch a call takes
loadDictionary(cached, promise) ==
  IF cached # <<>> THEN "cached"
  ELSE IF promise # <<>> THEN "pending"
  ELSE "fetch"

catchHandler_keepsPromise(promise) == promise

\* .catch(error => { loadPromise = null; throw error; }): the new loadPromise
catchHandler(promise) == <<>>

InitLoad ==
  /\ called = {}
  /\ targetDigits = <<>>
  /\ maxResults = 0
  /\ SplitIdle
  /\ DivIdle
  /\ OthersIdle("Index")
  /\ activeSystem = "do-re-major"
  /\ loadedDictionary = <<>>
  /\ wordListData = <<>>
  /\ customPegs = <<>>
  /\ matcherOut = NotRun /\ segmentOut = NotRun /\ pc = "idle"
  /\ wordMap = <<>> /\ queue = <<>> /\ bestWeightToPosition = <<>> /\ results = <<>> /\ seen = {}
  /\ LoadIdle
  /\ UiIdle

\* the variables no step of the load and no render changes
loadFrame == <<called, targetDigits, maxResults, splitVars, divVars, inputVars, searchVars, encVars, bridgeVars,
               entryVars, pegVars, lateVars>>

\* one call of loadDictionary by the given caller
CallLoadDictionary(caller) ==
  LET branch == loadDictionary(cachedDictionary, loadPromise)
      pending == [caller |-> caller, load |-> 0, state |-> "pending", value |-> <<>>, reason |-> ""]
  IN /\ Len(loadCalls) < MaxCalls
     /\ CASE branch = "cached" ->
               /\ loadCalls' = Append(loadCalls, [pending EXCEPT !.state = "fulfilled", !.value = cachedDictionary])
               /\ UNCHANGED <<loadPromise, loads>>
          [] branch = "pending" ->
               /\ loadCalls' = Append(loadCalls, [pending EXCEPT !.load = loadPromise[1]])
               /\ UNCHANGED <<loadPromise, loads>>
          [] branch = "fetch" ->
               /\ loads' = Append(loads, NewLoad)
               /\ loadPromise' = <<Len(loads) + 1>>
               /\ loadCalls' = Append(loadCalls, [pending EXCEPT !.load = Len(loads) + 1])
     /\ UNCHANGED cachedDictionary

\* useDictionary: the effect of the mounted component calls loadDictionary
UseDictionaryEffect ==
  /\ hookPc = "unmounted"
  /\ CallLoadDictionary("useDictionary")
  /\ hookPc' = "waiting"
  /\ UNCHANGED <<loadFrame, uiVars, hookDictionary, isLoading, error>>

\* loadDictionary called by another mount of useDictionary
OtherLoadDictionaryCall ==
  /\ CallLoadDictionary("other")
  /\ UNCHANGED <<loadFrame, uiVars, hookDictionary, isLoading, error, hookPc>>

\* fetch resolves with a response
FetchResolves ==
  \E k \in 1..Len(loads), r \in Responses :
    /\ loads[k].stage = "fetching"
    /\ loads' = [loads EXCEPT ![k] = [@ EXCEPT !.stage = "response", !.response = <<r>>]]
    /\ UNCHANGED <<loadFrame, uiVars, cachedDictionary, loadPromise, loadCalls, hookDictionary, isLoading, error, hookPc>>

\* fetch rejects: the network failed
FetchRejects ==
  \E k \in 1..Len(loads) :
    /\ loads[k].stage = "fetching"
    /\ loads' = [loads EXCEPT ![k] = [@ EXCEPT !.stage = "failing", !.reason = "Failed to fetch"]]
    /\ UNCHANGED <<loadFrame, uiVars, cachedDictionary, loadPromise, loadCalls, hookDictionary, isLoading, error, hookPc>>

\* .then(response => { if (!response.ok) throw ...; return response.json(); })
ThenResponse ==
  \E k \in 1..Len(loads) :
    /\ loads[k].stage = "response"
    /\ loads' = [loads EXCEPT ![k] =
                   IF ~loads[k].response[1].ok
                   THEN [@ EXCEPT !.stage = "failing", !.reason = "Failed to load dictionary: Not Found"]
                   ELSE [@ EXCEPT !.stage = "parsing"]]
    /\ UNCHANGED <<loadFrame, uiVars, cachedDictionary, loadPromise, loadCalls, hookDictionary, isLoading, error, hookPc>>

\* response.json() settles: with the parsed body, or with a SyntaxError
JsonSettles ==
  \E k \in 1..Len(loads) :
    /\ loads[k].stage = "parsing"
    /\ loads' = [loads EXCEPT ![k] =
                   IF loads[k].response[1].body = <<>>
                   THEN [@ EXCEPT !.stage = "failing", !.reason = "Unexpected token"]
                   ELSE [@ EXCEPT !.stage = "parsed", !.data = loads[k].response[1].body]]
    /\ UNCHANGED <<loadFrame, uiVars, cachedDictionary, loadPromise, loadCalls, hookDictionary, isLoading, error, hookPc>>

\* .then(data => { ...; cachedDictionary = dictionary; return dictionary; })
ThenData ==
  \E k \in 1..Len(loads) :
    /\ loads[k].stage = "parsed"
    /\ cachedDictionary' = <<stripMetadata(loads[k].data[1])>>
    /\ loads' = [loads EXCEPT ![k] = [@ EXCEPT !.stage = "fulfilled", !.value = <<stripMetadata(loads[k].data[1])>>]]
    /\ UNCHANGED <<loadFrame, uiVars, loadPromise, loadCalls, hookDictionary, isLoading, error, hookPc>>

\* .catch(error => { loadPromise = null; throw error; })
CatchError ==
  \E k \in 1..Len(loads) :
    /\ loads[k].stage = "failing"
    /\ loadPromise' = catchHandler(loadPromise)
    /\ loads' = [loads EXCEPT ![k] = [@ EXCEPT !.stage = "rejected"]]
    /\ UNCHANGED <<loadFrame, uiVars, cachedDictionary, loadCalls, hookDictionary, isLoading, error, hookPc>>

\* the promise an async call returned follows the settled loadPromise
SettleCall ==
  \E c \in 1..Len(loadCalls) :
    /\ loadCalls[c].state = "pending"
    /\ loads[loadCalls[c].load].stage \in {"fulfilled", "rejected"}
    /\ loadCalls' = [loadCalls EXCEPT ![c] =
                       [@ EXCEPT !.state = loads[loadCalls[c].load].stage,
                                 !.value = loads[loadCalls[c].load].value,
                                 !.reason = loads[loadCalls[c].load].reason]]
    /\ UNCHANGED <<loadFrame, uiVars, cachedDictionary, loadPromise, loads, hookDictionary, isLoading, error, hookPc>>

\* useDictionary: .then(dict => { setDictionary(dict); ...
HookThen ==
  \E c \in 1..Len(loadCalls) :
    /\ hookPc = "waiting"
    /\ loadCalls[c].caller = "useDictionary" /\ loadCalls[c].state = "fulfilled"
    /\ hookDictionary' = loadCalls[c].value
    /\ hookPc' = "setIsLoading"
    /\ UNCHANGED <<loadFrame, uiVars, cachedDictionary, loadPromise, loads, loadCalls, isLoading, error>>

\* useDictionary: .catch(err => { ...; setError(err.message); ...
HookCatch ==
  \E c \in 1..Len(loadCalls) :
    /\ hookPc = "waiting"
    /\ loadCalls[c].caller = "useDictionary" /\ loadCalls[c].state = "rejected"
    /\ error' = <<loadCalls[c].reason>>
    /\ hookPc' = "setIsLoading"
    /\ UNCHANGED <<loadFrame, uiVars, cachedDictionary, loadPromise, loads, loadCalls, hookDictionary, isLoading>>

\* useDictionary: ... setIsLoading(false); }) of either handler
HookSetIsLoading ==
  /\ hookPc = "setIsLoading"
  /\ isLoading' = FALSE
  /\ hookPc' = "settled"
  /\ UNCHANGED <<loadFrame, uiVars, cachedDictionary, loadPromise, loads, loadCalls, hookDictionary, error>>

\* the reactions the job queue of the page runs once they are ready
LoadHandlers == ThenResponse \/ ThenData \/ CatchError \/ SettleCall \/ HookThen \/ HookCatch \/ HookSetIsLoading

NextLoad ==
  \/ UseDictionaryEffect
  \/ OtherLoadDictionaryCall
  \/ FetchResolves
  \/ FetchRejects
  \/ ThenResponse
  \/ JsonSettles
  \/ ThenData
  \/ CatchError
  \/ SettleCall
  \/ HookThen
  \/ HookCatch
  \/ HookSetIsLoading

SpecLoad == InitLoad /\ [][NextLoad]_vars

\* every ready reaction is run
SpecLoadFair == SpecLoad /\ WF_vars(LoadHandlers)

\* ------------------------------------------ claims on the dictionary load
\* some load succeeded
Succeeded == \E k \in 1..Len(loads) : loads[k].stage = "fulfilled"

\* C18: at most one fetch is outstanding; a call made while a load is in
\* flight or after a load succeeded adds no load; every fulfilled call
\* holds the value of cachedDictionary; cachedDictionary, once set, keeps
\* its value
C18_SingleLoad ==
  /\ [](Cardinality(Outstanding) <= 1)
  /\ [][Len(loadCalls') > Len(loadCalls) /\ (InFlight # {} \/ Succeeded) => loads' = loads]_vars
  /\ [](\A c \in 1..Len(loadCalls) :
          loadCalls[c].state = "fulfilled" =>
            /\ cachedDictionary # <<>> /\ loadCalls[c].value = cachedDictionary
            /\ MetadataKey \notin DOMAIN loadCalls[c].value[1])
  /\ [][cachedDictionary # <<>> => cachedDictionary' = cachedDictionary]_vars

\* two calls waited on the same load and a third came after it succeeded;
\* all three are fulfilled and one load was ever started
C18_Witness ==
  /\ Len(loadCalls) = 3 /\ Len(loads) = 1
  /\ loadCalls[1].load = 1 /\ loadCalls[2].load = 1 /\ loadCalls[3].load = 0
  /\ \A c \in 1..3 : loadCalls[c].state = "fulfilled"

\* call c waits on a load that has failed
WaitsOnFailure(c) ==
  IF c > Len(loadCalls) THEN FALSE
  ELSE IF loadCalls[c].load = 0 THEN FALSE
  ELSE loads[loadCalls[c].load].stage = "failing"

\* call c was rejected with the error of its load
ToldOfFailure(c) ==
  IF c > Len(loadCalls) THEN FALSE
  ELSE loadCalls[c].state = "rejected" /\ loadCalls[c].reason # ""

\* the call of useDictionary was rejected
HookCallRejected == \E c \in 1..Len(loadCalls) : loadCalls[c].caller = "useDictionary" /\ loadCalls[c].state = "rejected"

\* C19: a call whose load failed is rejected, never fulfilled, and is
\* eventually told so; a failed load leaves cachedDictionary null; when
\* no load is in flight and none succeeded the next call starts a fetch;
\* loadPromise is cleared only when no load is in flight, and while a load
\* is in flight loadPromise is that load; useDictionary ends a failed
\* load with isLoading false and error set
C19_FailureRecoverable ==
  /\ [](\A c \in 1..Len(loadCalls) :
          (loadCalls[c].load # 0 /\ loads[loadCalls[c].load].stage \in {"failing", "rejected"}) =>
            loadCalls[c].state # "fulfilled")
  /\ \A c \in 1..MaxCalls : WaitsOnFailure(c) ~> ToldOfFailure(c)
  /\ [](cachedDictionary # <<>> => Succeeded)
  /\ [][Len(loadCalls') > Len(loadCalls) /\ InFlight = {} /\ ~Succeeded =>
          /\ Len(loads') = Len(loads) + 1
          /\ Outstanding' = {Len(loads')}]_vars
  /\ [](InFlight # {} => InFlight = {Len(loads)} /\ loadPromise = <<Len(loads)>>)
  /\ [][loadPromise # <<>> /\ loadPromise' = <<>> => InFlight' = {}]_vars
  /\ HookCallRejected
       ~> (~isLoading /\ error # <<>> /\ error # <<"">> /\ hookDictionary = <<>>)

\* the load of useDictionary failed, the hook shows the error, and a
\* later call started a second fetch
C19_Witness ==
  /\ Len(loads) = 2 /\ loads[1].stage = "rejected" /\ loads[2].stage = "fetching"
  /\ loadCalls[1].caller = "useDictionary" /\ loadCalls[1].state = "rejected"
  /\ ~isLoading /\ error # <<>> /\ hookPc = "settled"


\* ------------------------------------------------- specification: Index
\* what the user types into NumberInput
IndexInputs == { <<"1","7">>, <<"1","a">> }

\* the digits and dictionary arguments useSegmentMatches is called with
\* outside Index
HookDigits == { <<>>, <<"a","b">>, <<"7","-","1">> }

useSegmentMatches_noNullGuard(digits, system, dictionary, pegs) ==
  LET cleanDigits == stripNonDigits(digits)
  IN IF cleanDigits = <<>> THEN [out |-> <<>>, engine |-> {}]
     ELSE [out |-> IF dictionary = <<>> THEN <<>>
                   ELSE buildSplitRows(cleanDigits, dictionary[1], system, pegs, DEFAULT_MAX_COMBINATIONS),
           engine |-> {[function |-> "buildSplitRows", digits |-> cleanDigits, dictionary |-> dictionary]}]

\* useSegmentMatches: the value returned and the engine calls made;
\* dictionary is <<>> for null
useSegmentMatches(digits, system, dictionary, pegs) ==
  LET cleanDigits == stripNonDigits(digits)
  IN IF dictionary = <<>> THEN [out |-> <<>>, engine |-> {}]
     ELSE IF cleanDigits = <<>> THEN [out |-> <<>>, engine |-> {}]
     ELSE [out |-> buildSplitRows(cleanDigits, dictionary[1], system, pegs, DEFAULT_MAX_COMBINATIONS),
           engine |-> {[function |-> "buildSplitRows", digits |-> cleanDigits, dictionary |-> dictionary]}]

\* the engine calls of one caller
CallsFrom(caller, engine) ==
  {[from |-> caller, function |-> e.function, digits |-> e.digits, dictionary |-> e.dictionary] : e \in engine}

\* the call of useSegmentMatches, as stored in lastHook
HookCall(caller, digits, system, dictionary, pegs) ==
  LET r == useSegmentMatches(digits, system, dictionary, pegs)
  IN [from |-> caller, digits |-> digits, dictionary |-> dictionary, out |-> r.out, engine |-> r.engine]

InitIndex ==
  /\ called = {}
  /\ targetDigits = <<>>
  /\ maxResults = 0
  /\ SplitIdle
  /\ DivIdle
  /\ OthersIdle("Index")
  /\ activeSystem = "do-re-major"
  /\ loadedDictionary = <<>>
  /\ wordListData = <<>>
  /\ customPegs \in { <<>>, << [digits |-> <<"1">>, words |-> <<tea>>] >> }
  /\ matcherOut = NotRun /\ segmentOut = NotRun /\ pc = "idle"
  /\ wordMap = <<>> /\ queue = <<>> /\ bestWeightToPosition = <<>> /\ results = <<>> /\ seen = {}
  /\ LoadIdle
  /\ UiIdle

\* the variables no handler of the page changes
indexFrame == <<called, targetDigits, maxResults, splitVars, divVars, loadedDictionary, wordListData, customPegs,
                matcherOut, pc, wordMap, queue, bestWeightToPosition, results, seen, encVars, bridgeVars, entryVars,
                pegVars, loadVars, lateVars>>

\* NumberInput: handleChange
NumberInputChange ==
  \E value \in IndexInputs :
    /\ indexDigits' = stripNonDigits(value)
    /\ UNCHANGED <<indexFrame, activeSystem, view, engineCalls, lastHook, segmentOut>>

\* NumberInput: handleClear, of the button shown while value is not empty
NumberInputClear ==
  /\ indexDigits # <<>>
  /\ indexDigits' = <<>>
  /\ UNCHANGED <<indexFrame, activeSystem, view, engineCalls, lastHook, segmentOut>>

\* ModeToggle: onSystemChange
ModeToggle ==
  /\ activeSystem' \in Systems \ {activeSystem}
  /\ UNCHANGED <<indexFrame, indexDigits, view, engineCalls, lastHook, segmentOut>>

\* Index renders its results area: the spinner, the error, or
\* SplitResultsList, which calls useSegmentMatches
RenderIndex ==
  /\ IF isLoading
     THEN view' = "loading" /\ UNCHANGED <<engineCalls, lastHook>>
     ELSE IF error # <<>> /\ error # <<"">>
     THEN view' = "error" /\ UNCHANGED <<engineCalls, lastHook>>
     ELSE /\ view' = "results"
          /\ lastHook' = <<HookCall("Index", indexDigits, activeSystem, hookDictionary, customPegs)>>
          /\ engineCalls' = engineCalls \cup CallsFrom("Index", lastHook'[1].engine)
  /\ UNCHANGED <<indexFrame, activeSystem, indexDigits, segmentOut>>

\* SegmentBox: handleExpand of a segment of the rows rendered last
ExpandSegment ==
  /\ view = "results"
  /\ lastHook # <<>>
  /\ lastHook[1].from = "Index"
  /\ \E r \in 1..Len(lastHook[1].out) : \E n \in 1..Len(lastHook[1].out[r].segments) :
       LET segment == lastHook[1].out[r].segments[n]
       IN /\ segmentOut' = IF lastHook[1].dictionary = <<>> THEN <<>>
                           ELSE getMatchesForDigits(segment.digits, lastHook[1].dictionary[1], activeSystem, customPegs)
          /\ engineCalls' = engineCalls \cup
               {[from |-> "Index", function |-> "getMatchesForDigits", digits |-> segment.digits,
                 dictionary |-> lastHook[1].dictionary]}
  /\ UNCHANGED <<indexFrame, activeSystem, indexDigits, view, lastHook>>

\* useSegmentMatches called with any digits and with no dictionary or
\* the dictionary of useDictionary
CallUseSegmentMatches ==
  \E value \in HookDigits \cup {indexDigits}, dictionary \in {<<>>, hookDictionary} :
    /\ lastHook' = <<HookCall("useSegmentMatches", value, activeSystem, dictionary, customPegs)>>
    /\ engineCalls' = engineCalls \cup CallsFrom("useSegmentMatches", lastHook'[1].engine)
    /\ UNCHANGED <<indexFrame, activeSystem, indexDigits, view, segmentOut>>

NextIndex ==
  \/ UseDictionaryEffect
  \/ FetchResolves
  \/ FetchRejects
  \/ ThenResponse
  \/ JsonSettles
  \/ ThenData
  \/ CatchError
  \/ SettleCall
  \/ HookThen
  \/ HookCatch
  \/ HookSetIsLoading
  \/ NumberInputChange
  \/ NumberInputClear
  \/ ModeToggle
  \/ RenderIndex
  \/ ExpandSegment
  \/ CallUseSegmentMatches

SpecIndex == InitIndex /\ [][NextIndex]_vars

\* ----------------------------------------------------- claims on Index
\* the string holds digits 0-9 only and at least one
DigitsOnly(s) == Len(s) > 0 /\ \A n \in 1..Len(s) : s[n] \in AllDigits

\* C20: every engine call made so far has a dictionary and a digits-only
\* string; while useDictionary is loading or holds an error Index has
\* made no engine call, and a render of the spinner or of the error makes
\* none; a call of useSegmentMatches with a null dictionary or without a
\* digit in its input returns the empty list and makes no engine call
C20_EngineNeedsDictionary ==
  /\ [](\A e \in engineCalls : e.dictionary # <<>> /\ DigitsOnly(e.digits))
  /\ []((isLoading \/ error # <<>> \/ hookDictionary = <<>>) => \A e \in engineCalls : e.from # "Index")
  /\ [][view' \in {"loading", "error"} => \A e \in engineCalls' : e.from = "Index" => e \in engineCalls]_vars
  /\ [](lastHook # <<>> =>
          ((lastHook[1].dictionary = <<>> \/ \A n \in 1..Len(lastHook[1].digits) : lastHook[1].digits[n] \notin AllDigits)
             => lastHook[1].out = <<>> /\ lastHook[1].engine = {}))

\* the page called the engine for rows and for a segment after the load,
\* and useSegmentMatches answered a call without dictionary with no rows
C20_Witness ==
  /\ \E e \in engineCalls : e.from = "Index" /\ e.function = "buildSplitRows" /\ e.digits = <<"1","7">>
  /\ \E e \in engineCalls : e.from = "Index" /\ e.function = "getMatchesForDigits"
  /\ lastHook # <<>> /\ lastHook[1].dictionary = <<>> /\ lastHook[1].digits = <<"7","-","1">>
  /\ lastHook[1].out = <<>>

\* ------------------------------- specification: findOptimalCombinations
\* the length of the digit strings searched for paths
MaxPath == 4

\* the default of the maxResults parameter of findOptimalCombinations
OPTIMAL_DEFAULT_MAX_RESULTS == 50

\* the custom pegs of the searches: none, a two-digit peg, a one-digit
\* and a two-digit peg, and a peg whose word encodes to other digits
OptimalPegLists ==
  { <<>>,
    << [digits |-> <<"1","7">>, words |-> <<tack>>] >>,
    << [digits |-> <<"1">>, words |-> <<tea>>], [digits |-> <<"1","7">>, words |-> <<tack>>] >>,
    << [digits |-> <<"7","1">>, words |-> <<dog>>] >> }

\* the dictionaries of the searches: single digits, pairs and a triple
OptimalDictionaries ==
  { [code \in { <<"D">>, <<"K">>, <<"D","K">> } |->
       CASE code = <<"D">> -> <<tie>>
         [] code = <<"K">> -> <<key>>
         [] code = <<"D","K">> -> <<dog, duck>>],
    [code \in { <<"K">>, <<"D","K">>, <<"D","K","D">> } |->
       CASE code = <<"K">> -> <<key>>
         [] code = <<"D","K">> -> <<dagger>>
         [] code = <<"D","K","D">> -> << <<"t","i","c","k","e","t">> >>] }

InitOptimal ==
  /\ called = {}
  /\ ExtraIdle
  /\ targetDigits \in StringsOver(SearchDigits, 0, MaxPath)
  /\ maxResults \in 1..MaxResults \cup {OPTIMAL_DEFAULT_MAX_RESULTS}
  /\ activeSystem \in Systems
  /\ loadedDictionary \in OptimalDictionaries
  /\ wordListData = <<>>
  /\ customPegs \in OptimalPegLists
  /\ matcherOut = NotRun /\ segmentOut = NotRun /\ pc = "idle"
  /\ wordMap = <<>> /\ queue = <<>> /\ bestWeightToPosition = <<>> /\ results = <<>> /\ seen = {}
  /\ SplitIdle
  /\ DivIdle

NextOptimal == FindOptimalStart \/ FindOptimalStep \/ FindOptimalReturn

SpecOptimal == InitOptimal /\ [][NextOptimal]_vars

\* ---------------------------------- claims on findOptimalCombinations
\* the weight that stands for "no path"
NoPath == 2 * WEIGHT_1_DIGIT * (MaxPath + 1) + 1

\* the least element of a non-empty set of numbers
Least(S) == CHOOSE x \in S : \A y \in S : x <= y

RECURSIVE lightestFrom(_, _, _)
\* the least total weight of a path of word map edges from pos to n,
\* by exhaustive enumeration; NoPath when there is none
lightestFrom(wm, pos, n) ==
  IF pos = n THEN 0
  ELSE LET reach == {k \in 1..Len(wm[pos]) : lightestFrom(wm, pos + wm[pos][k].length, n) < NoPath}
       IN IF reach = {} THEN NoPath
          ELSE Least({wm[pos][k].weight + lightestFrom(wm, pos + wm[pos][k].length, n) : k \in reach})

\* findOptimalCombinations was called on a non-empty digit string
OptimalRan == "findOptimalCombinations" \in called /\ Len(targetDigits) > 0

\* the least total weight of a full coverage of the digit string
LightestFull == lightestFrom(wordMap, 0, Len(targetDigits))

\* C21: when a path from 0 to N exists and maxResults >= 1: while no
\* result is recorded the queue holds a prefix of a minimum-weight path,
\* the results are in non-decreasing totalWeight order, and the returned
\* list is non-empty and starts with a result of the minimum weight
C21_LightestFirst ==
  (OptimalRan /\ maxResults >= 1 /\ LightestFull < NoPath) =>
    /\ (pc = "loop" /\ results = <<>>) =>
         \E n \in 1..Len(queue) :
           queue[n].totalWeight + lightestFrom(wordMap, queue[n].position, Len(targetDigits)) = LightestFull
    /\ \A i, j \in 1..Len(results) : i < j => results[i].totalWeight <= results[j].totalWeight
    /\ pc = "returned" => (Len(results) >= 1 /\ results[1].totalWeight = LightestFull)

\* a search of four digits returned results of different weights after
\* pruning a path: the result list is shorter than maxResults although
\* the word map has a heavier coverage in single digits
C21_Witness ==
  /\ OptimalRan /\ pc = "returned" /\ Len(targetDigits) = 4
  /\ Len(results) >= 2 /\ Len(results) < maxResults
  /\ results[1].totalWeight < results[Len(results)].totalWeight
  /\ results[1].totalWeight = LightestFull

\* C22 as stated: every recorded result weighs at most 5 more than the
\* lightest full coverage, and no node of the queue weighs more than 5
\* above the best weight known for its position
C22_WithinSlackOfBest ==
  OptimalRan =>
    /\ \A i \in 1..Len(results) : results[i].totalWeight <= LightestFull + 2 * PRUNE_SLACK
    /\ \A n \in 1..Len(queue) :
         queue[n].position \in DOMAIN bestWeightToPosition =>
           queue[n].totalWeight <= bestWeightToPosition[queue[n].position] + 2 * PRUNE_SLACK

\* C22: the slack is tested when a path is discovered: every node an
\* iteration pushes to a position visited before weighs at most 5 more
\* than the best weight known for that position before the iteration;
\* the best weight of a position never rises, and no result weighs less
\* than the lightest full coverage
C22_SlackAtDiscovery ==
  /\ [][pc = "loop" /\ pc' = "loop" /\ OptimalRan =>
          /\ \A n \in Len(queue)..Len(queue') :
               queue'[n].position \in DOMAIN bestWeightToPosition =>
                 queue'[n].totalWeight <= bestWeightToPosition[queue'[n].position] + 2 * PRUNE_SLACK
          /\ \A pos \in DOMAIN bestWeightToPosition :
               pos \in DOMAIN bestWeightToPosition' /\ bestWeightToPosition'[pos] <= bestWeightToPosition[pos]]_vars
  /\ [](OptimalRan => \A i \in 1..Len(results) : results[i].totalWeight >= LightestFull)

\* a returned result weighs more than 5 above the lightest coverage: the
\* end was first reached by the heavier path and the lighter one followed
C22_Witness ==
  /\ OptimalRan /\ pc = "returned"
  /\ \E i \in 1..Len(results) : results[i].totalWeight > LightestFull + 2 * PRUNE_SLACK

\* the largest number of edges leaving a position of the word map
MaxOutDegree == 0 - Least({0 - Len(wordMap[pos]) : pos \in DOMAIN wordMap} \cup {0})

RECURSIVE Power(_, _)
Power(b, e) == IF e = 0 THEN 1 ELSE b * Power(b, e - 1)

RECURSIVE rankOf(_)
\* a measure of the work left in the queue: a node at position p counts
\* (MaxOutDegree + 1)^(N - p), more than all the nodes it can be replaced by
rankOf(q) ==
  IF q = <<>> THEN 0
  ELSE Power(MaxOutDegree + 1, Len(targetDigits) - Head(q).position) + rankOf(Tail(q))

\* C23: every iteration of the loop lowers the measure of the queue,
\* which is never negative, so the loop ends after finitely many
\* expansions; the loop is left only with an empty queue or with
\* maxResults results, and no iteration runs in such a state; the list
\* never holds more than maxResults results
C23_LoopTerminates ==
  /\ [][pc = "loop" /\ pc' = "loop" => (rankOf(queue') < rankOf(queue) /\ rankOf(queue') >= 0)]_vars
  /\ [][pc = "loop" /\ pc' = "returned" => (Len(queue) = 0 \/ Len(results) = maxResults)]_vars
  /\ [][pc = "loop" /\ (Len(queue) = 0 \/ Len(results) = maxResults) => (pc' = "returned" /\ results' = results)]_vars
  /\ [](Len(results) <= maxResults)

\* the search of four digits stopped at the cap with paths left in the queue
C23_Witness ==
  /\ OptimalRan /\ pc = "returned" /\ Len(targetDigits) = 4
  /\ Len(results) = maxResults /\ Len(queue) > 0

\* C24 as stated: no two results recorded by findOptimalCombinations
\* have the same words, and no two candidates of the list returned by
\* findWordCombinations have the same words
C24_NoDuplicateWordSequences ==
  /\ \A i, j \in 1..Len(results) : i # j => results[i].words # results[j].words
  /\ MatcherReturned => \A i, j \in 1..Len(matcherOut) : i # j => matcherOut[i].words # matcherOut[j].words

\* ------------------------------------------ claims on findPartialMatches
PartialReturned == "findPartialMatches" \in called

\* the proper prefix of length len of the digit string is the digits of a
\* peg or has dictionary words
PrefixCovered(len) ==
  \/ \E n \in 1..Len(customPegs) : customPegs[n].digits = Slice(targetDigits, 0, len)
  \/ len <= 8 /\ Len(findWordsForDigits(loadedDictionary, Slice(targetDigits, 0, len), activeSystem)) > 0

\* every result is partial and covers a proper prefix, the list is ordered
\* by coverage descending then totalWeight ascending and is capped
PartialWellFormed ==
  /\ \A i \in 1..Len(partialOut) :
       /\ ~partialOut[i].isFullMatch
       /\ Len(partialOut[i].digits) < Len(targetDigits)
       /\ partialOut[i].digits = Slice(targetDigits, 0, Len(partialOut[i].digits))
  /\ \A i, j \in 1..Len(partialOut) :
       i < j => \/ Len(partialOut[i].digits) > Len(partialOut[j].digits)
                \/ /\ Len(partialOut[i].digits) = Len(partialOut[j].digits)
                   /\ partialOut[i].totalWeight <= partialOut[j].totalWeight
  /\ Len(partialOut) <= maxResults

\* C25 as stated: when a proper prefix of length L is covered by a peg or
\* by a dictionary code, the first result covers at least L digits, and
\* the list is well formed
C25_LongestPrefixFirst ==
  PartialReturned =>
    /\ \A len \in 1..(Len(targetDigits) - 1) :
         PrefixCovered(len) => (Len(partialOut) >= 1 /\ Len(partialOut[1].digits) >= len)
    /\ PartialWellFormed

\* --------------------------------------------- claims on geminates
\* the word with every run of identical letters that are mapped to a
\* digit collapsed into one letter (letters compared in lower case)
collapseGeminates(word, system) ==
  SelectSeq2(word, [n \in 1..Len(word) |->
    ~(/\ n > 1
      /\ toLowerCase(<<word[n]>>) = toLowerCase(<<word[n - 1]>>)
      /\ consonantToDigit(system, toLowerCase(<<word[n]>>)) # <<>>)])

\* C26 as stated: wordToDigits returns for a word what it returns for the
\* word with its geminates collapsed
C26_GeminatesCollapsed ==
  EncodeReturned => encDigits = wordToDigits(collapseGeminates(encWord, activeSystem), activeSystem)

\* ------------------------------------------------- specification: areSimilar
\* the words handed to areSimilar: bases, inflected forms with different
\* suffixes of the suffixes array, and capitalised variants
SimilarWords ==
  { <<"w","a","l","k">>, <<"w","a","l","k","e","d">>, <<"w","a","l","k","i","n","g">>, <<"W","A","L","K","S">>,
    <<"c","a","t">>, <<"c","a","t","s">>, <<"b","o","x">>, <<"b","o","x","e","s">>, <<"b","o","x","e","d">>,
    <<"k","i","n","d">>, <<"k","i","n","d","l","y">>, <<"k","i","n","d","n","e","s","s">> }

InitSimilar ==
  /\ called = {}
  /\ OthersIdle("areSimilar")
  /\ similarWords \in SimilarWords \X SimilarWords
  /\ similarOut = NotRun
  /\ storage = <<>> /\ favCall = <<>>
  /\ targetDigits = <<>>
  /\ maxResults = 0
  /\ SplitIdle
  /\ DivIdle
  /\ SearchIdle

\* one call of areSimilar(word1, word2)
CallAreSimilar ==
  /\ "areSimilar" \notin called
  /\ called' = called \cup {"areSimilar"}
  /\ similarOut' = areSimilar(similarWords[1], similarWords[2])
  /\ UNCHANGED <<targetDigits, maxResults, splitVars, divVars, inputVars, searchVars, encVars, bridgeVars, entryVars,
                 pegVars, loadVars, uiVars, similarWords, storage, favCall>>

NextSimilar == CallAreSimilar

SpecSimilar == InitSimilar /\ [][NextSimilar]_vars

\* ------------------------------------------------- claims on areSimilar
\* w carries the suffix and reduces to base when the suffix is stripped
ReducesTo(w, base) == \E k \in 1..Len(suffixes) : EndsWith(w, suffixes[k]) /\ stripSuffix(w, suffixes[k]) = base

\* the two words reduce to the same base form, each by a suffix of its own
SameBase(w1, w2) ==
  \E k1 \in 1..Len(suffixes) : EndsWith(w1, suffixes[k1]) /\ ReducesTo(w2, stripSuffix(w1, suffixes[k1]))

\* C27 (as stated): areSimilar(w1, w2) is true exactly when, ignoring case,
\* the words are equal, or one is a prefix of the other, or the two words
\* reduce to the same base form after each has one suffix of the fixed set
\* stripped, where the two suffixes may differ (base+'ed' and base+'ing');
\* and the relation is symmetric.
C27_SimilarBySameBase ==
  "areSimilar" \in called =>
    LET w1 == toLowerCase(similarWords[1])
        w2 == toLowerCase(similarWords[2])
    IN /\ similarOut = (w1 = w2 \/ StartsWith(w1, w2) \/ StartsWith(w2, w1) \/ SameBase(w1, w2))
       /\ similarOut = areSimilar(similarWords[2], similarWords[1])

\* what the code computes: stripping the same suffix from both words adds
\* nothing to equality and prefix, and the relation is symmetric
AreSimilarIsEqualOrPrefix ==
  "areSimilar" \in called =>
    LET w1 == toLowerCase(similarWords[1])
        w2 == toLowerCase(similarWords[2])
    IN /\ similarOut = (w1 = w2 \/ StartsWith(w1, w2) \/ StartsWith(w2, w1))
       /\ similarOut = areSimilar(similarWords[2], similarWords[1])

\* ------------------------------------------------- specification: buildSplitRows
MaxCombinations == 8

InitRows ==
  /\ called = {}
  /\ OthersIdle("buildSplitRows")
  /\ maxCombinations \in 0..MaxCombinations \cup {DEFAULT_MAX_COMBINATIONS}
  /\ targetDigits \in StringsOver(SearchDigits, 0, MaxTarget)
  /\ maxResults = DEFAULT_MAX_RESULTS
  /\ activeSystem \in Systems
  /\ loadedDictionary \in Dictionaries
  /\ wordListData = <<>>
  /\ customPegs \in OptimalPegLists
  /\ matcherOut = NotRun /\ segmentOut = NotRun /\ pc = "idle"
  /\ wordMap = <<>> /\ queue = <<>> /\ bestWeightToPosition = <<>> /\ results = <<>> /\ seen = {}
  /\ SplitIdle
  /\ DivIdle

NextRows == CallBuildSplitRows

SpecRows == InitRows /\ [][NextRows]_vars

\* ------------------------------------------------- claims on buildSplitRows
RowsBuilt == "buildSplitRows" \in called

\* all matches of a part, before the cut to five
PartMatches(part) == getMatchesForDigits(part, loadedDictionary, activeSystem, customPegs)

\* the segmentations of the digits in display order, and those of them whose
\* every part has a match
RowSplits == getDisplaySplits(targetDigits, SPLIT_ROWS_MAX_SPLITS)

HasMatches(split) == \A n \in 1..Len(split.parts) : Len(PartMatches(split.parts[n])) > 0

ValidSplits == SelectSeq2(RowSplits, [k \in 1..Len(RowSplits) |-> HasMatches(RowSplits[k])])

\* the product of the displayed match counts of a row or of a split
RowCombinations(row) == Product([n \in 1..Len(row.segments) |-> Len(row.segments[n].matches)])

SplitCombinations(split) == Product([n \in 1..Len(split.parts) |-> Min(Len(PartMatches(split.parts[n])), SEGMENT_DISPLAY)])

RECURSIVE SumOf(_)
SumOf(ns) == IF ns = <<>> THEN 0 ELSE Head(ns) + SumOf(Tail(ns))

RowsTotal == SumOf([k \in 1..Len(rowsOut) |-> RowCombinations(rowsOut[k])])

\* C28: buildSplitRows returns rows in segmentation order; every segment of
\* a row has at least one match and shows at most 5, the first 5 of its
\* matches, with hasMore true exactly when it has more than 5; the sum over
\* the rows of the product of displayed match counts is at most
\* maxCombinations unless exactly one row is returned; and no row is added
\* after the first row that would exceed the limit.
C28_RowsWithinLimit ==
  RowsBuilt =>
   LET valid == ValidSplits
       combinations == [k \in 1..Len(valid) |-> SplitCombinations(valid[k])]
   IN
    /\ Len(rowsOut) <= Len(valid)
    /\ \A k \in 1..Len(rowsOut) :
         /\ rowsOut[k].pattern = valid[k].pattern
         /\ rowsOut[k].parts = valid[k].parts
         /\ Len(rowsOut[k].segments) = Len(rowsOut[k].parts)
         /\ \A n \in 1..Len(rowsOut[k].segments) :
              LET seg == rowsOut[k].segments[n]
                  all == PartMatches(rowsOut[k].parts[n])
              IN /\ seg.digits = rowsOut[k].parts[n]
                 /\ Len(seg.matches) >= 1 /\ Len(seg.matches) <= 5
                 /\ seg.matches = SubSeq(all, 1, Len(seg.matches))
                 /\ seg.hasMore = (Len(all) > 5)
    /\ (RowsTotal <= maxCombinations \/ Len(rowsOut) = 1)
    /\ \A j \in 1..Len(valid) :
         SumOf(SubSeq(combinations, 1, j)) > maxCombinations => Len(rowsOut) <= Max(j - 1, 1)

\* a call where the limit cuts the rows short after two of them, one with a
\* segment of more than five matches
C28_Witness ==
  /\ RowsBuilt
  /\ Len(rowsOut) = 2 /\ Len(ValidSplits) > 2
  /\ \E n \in 1..Len(rowsOut[1].segments) : rowsOut[1].segments[n].hasMore

\* ------------------------------------------------- claims on the two tables
\* the letters of each bridge symbol (dictionaryService: D=t/d, N=n, M=m,
\* R=r, L=l, J=ch/sh/j, K=k/g, F=f/v, P=p/b, S=s/z)
BridgeLetters(symbol) ==
  CASE symbol = "D" -> { <<"t">>, <<"d">> }
    [] symbol = "N" -> { <<"n">> }
    [] symbol = "M" -> { <<"m">> }
    [] symbol = "R" -> { <<"r">> }
    [] symbol = "L" -> { <<"l">> }
    [] symbol = "J" -> { <<"j">>, <<"c","h">>, <<"s","h">> }
    [] symbol = "K" -> { <<"k">>, <<"g">> }
    [] symbol = "F" -> { <<"f">>, <<"v">> }
    [] symbol = "P" -> { <<"p">>, <<"b">> }
    [] symbol = "S" -> { <<"s">>, <<"z">> }

\* C29: the two digit-assignment tables agree: for each system and each of
\* the ten bridge symbols, BRIDGE_TO_DIGIT[system][symbol] is the digit the
\* consonantToDigit map of the system assigns to each letter of the symbol,
\* so the digits bridgeCodeToDigits returns for a code are the digits the
\* spelling-based encoding gives the letters of its symbols.
C29_TablesAgree ==
  /\ \A sys \in Systems : \A symbol \in BridgeSymbols : \A letter \in BridgeLetters(symbol) :
       /\ BRIDGE_TO_DIGIT(sys, symbol) # <<>>
       /\ BRIDGE_TO_DIGIT(sys, symbol) = consonantToDigit(sys, letter)
  /\ "bridgeCodeToDigits" \in called =>
       /\ Len(toDigitsOut) = Len(bridgeIn)
       /\ \A n \in 1..Len(bridgeIn) : \A letter \in BridgeLetters(bridgeIn[n]) :
            /\ <<toDigitsOut[n]>> = consonantToDigit(activeSystem, letter)
            /\ <<toDigitsOut[n]>> = wordToDigits(letter, activeSystem)

\* a code with J, whose letters ch are listed under two digits of the
\* do-re-major table, translated in that system
C29_Witness ==
  /\ "bridgeCodeToDigits" \in called
  /\ activeSystem = "do-re-major"
  /\ \E n \in 1..Len(bridgeIn) : bridgeIn[n] = "J" /\ toDigitsOut[n] = "8"

\* ------------------------------------------------- specification: useFavorites
MaxTime == 2

\* the values of Date.now() and of Math.random().toString(36).slice(2, 9)
Times == 1..MaxTime

RandomTags == {"a"}

\* the argument of addFavorite: digits, words and system
FavoriteInputs ==
  { [digits |-> <<"1","7">>, words |-> <<tack>>, system |-> "do-re-major"],
    [digits |-> <<"1","7">>, words |-> <<tack>>, system |-> "major"],
    [digits |-> <<"1","7">>, words |-> <<tie, key>>, system |-> "do-re-major"] }

\* interface Favorite, with the id and the time addFavorite gives it
NewFavorite(favorite, now, random) ==
  [id |-> <<now, random>>, digits |-> favorite.digits, words |-> favorite.words, system |-> favorite.system, createdAt |-> now]

\* JSON.stringify and JSON.parse of a list of favourites: the fields are
\* strings, string arrays and finite numbers, which the text keeps
stringify(list) == <<"json", list>>

parse(text) == text[2]

\* the item under STORAGE_KEY at mount: absent, or a list an earlier
\* session saved
StoredAtMount ==
  { <<>>, stringify(<<>>) }
    \cup { stringify(<<NewFavorite(favorite, 1, "a")>>) : favorite \in FavoriteInputs }

loadFavorites(stored) == IF stored = <<>> THEN <<>> ELSE parse(stored)

\* saveFavorites(list): setItem stores the text, or throws (quota, private
\* mode) and the error is logged
saveFavorites(list, stored, thrown) == IF thrown THEN stored ELSE stringify(list)

favoriteExists_never(prev, favorite) == FALSE

\* prev.some(f => f.digits === favorite.digits && f.words.join('+') ===
\* favorite.words.join('+') && f.system === favorite.system)
favoriteExists(prev, favorite) ==
  \E n \in 1..Len(prev) :
    /\ prev[n].digits = favorite.digits
    /\ Join(prev[n].words, "+") = Join(favorite.words, "+")
    /\ prev[n].system = favorite.system

InitFavorites ==
  /\ called = {}
  /\ OthersIdle("useFavorites")
  /\ entryDigits = <<>> /\ entryWord = <<>> /\ warning = <<>> /\ lastEvent = "none"
  /\ favorites = <<>>
  /\ storage \in StoredAtMount
  /\ favCall = <<>>
  /\ similarWords = <<>> /\ similarOut = NotRun
  /\ targetDigits = <<>>
  /\ maxResults = 0
  /\ SplitIdle
  /\ DivIdle
  /\ SearchIdle

favFrame == <<targetDigits, maxResults, splitVars, divVars, inputVars, searchVars, encVars, bridgeVars, entryVars,
              loadVars, uiVars, entryDigits, entryWord, warning, similarWords, similarOut>>

\* useEffect(() => { setFavorites(loadFavorites()) }, [])
MountEffect ==
  /\ "mount" \notin called
  /\ called' = called \cup {"mount"}
  /\ favorites' = loadFavorites(storage)
  /\ lastEvent' = "mount"
  /\ UNCHANGED <<favFrame, storage, favCall>>

\* addFavorite(favorite)
AddFavorite ==
  /\ "mount" \in called
  /\ \E favorite \in FavoriteInputs, now \in Times, random \in RandomTags, thrown \in BOOLEAN :
       LET updated == <<NewFavorite(favorite, now, random)>> \o favorites
       IN IF favoriteExists(favorites, favorite)
          THEN /\ thrown = FALSE
               /\ favCall' = <<[call |-> "addFavorite", favorite |-> favorite, id |-> <<>>, written |-> <<>>, thrown |-> FALSE]>>
               /\ UNCHANGED <<favorites, storage>>
          ELSE /\ favorites' = updated
               /\ storage' = saveFavorites(updated, storage, thrown)
               /\ favCall' = <<[call |-> "addFavorite", favorite |-> favorite, id |-> <<>>, written |-> <<updated>>, thrown |-> thrown]>>
  /\ UNCHANGED called
  /\ lastEvent' = "addFavorite"
  /\ UNCHANGED favFrame

\* removeFavorite(id)
RemoveFavorite ==
  /\ "mount" \in called
  /\ \E id \in Times \X RandomTags, thrown \in BOOLEAN :
       LET updated == SelectSeq2(favorites, [n \in 1..Len(favorites) |-> favorites[n].id # id])
       IN /\ favorites' = updated
          /\ storage' = saveFavorites(updated, storage, thrown)
          /\ favCall' = <<[call |-> "removeFavorite", favorite |-> <<>>, id |-> id, written |-> <<updated>>, thrown |-> thrown]>>
  /\ UNCHANGED called
  /\ lastEvent' = "removeFavorite"
  /\ UNCHANGED favFrame

\* clearAllFavorites()
ClearAllFavorites ==
  /\ "mount" \in called
  /\ \E thrown \in BOOLEAN :
       /\ favorites' = <<>>
       /\ storage' = saveFavorites(<<>>, storage, thrown)
       /\ favCall' = <<[call |-> "clearAllFavorites", favorite |-> <<>>, id |-> <<>>, written |-> << <<>> >>, thrown |-> thrown]>>
  /\ UNCHANGED called
  /\ lastEvent' = "clearAllFavorites"
  /\ UNCHANGED favFrame

NextFavorites == MountEffect \/ AddFavorite \/ RemoveFavorite \/ ClearAllFavorites

SpecFavorites == InitFavorites /\ [][NextFavorites]_vars

\* ------------------------------------------------- claims on useFavorites
FavoriteKey(f) == <<f.digits, Join(f.words, "+"), f.system>>

\* the call that made the step to the primed state
CallMade(name) == lastEvent' = name /\ Len(favCall') = 1

\* C30: after any sequence of addFavorite, removeFavorite and
\* clearAllFavorites calls no two entries of favorites have the same digits,
\* words joined by '+' and system; adding an entry that already exists
\* leaves the list and the stored copy unchanged; removeFavorite(id) removes
\* the entries with that id, no other, and keeps the order of the rest; and
\* after every change the value handed to storage is the list in memory.
C30_FavoritesConsistent ==
  /\ [](\A i, j \in 1..Len(favorites) : i # j => FavoriteKey(favorites[i]) # FavoriteKey(favorites[j]))
  /\ [][CallMade("addFavorite") /\ (\E n \in 1..Len(favorites) : FavoriteKey(favorites[n]) = FavoriteKey(favCall'[1].favorite))
          => favorites' = favorites /\ storage' = storage /\ favCall'[1].written = <<>>]_vars
  /\ [][CallMade("removeFavorite")
          => /\ \A n \in 1..Len(favorites') : favorites'[n].id # favCall'[1].id
             /\ favorites' = SelectSeq2(favorites, [n \in 1..Len(favorites) |-> favorites[n].id # favCall'[1].id])]_vars
  /\ [][lastEvent' \in {"addFavorite", "removeFavorite", "clearAllFavorites"} /\ favorites' # favorites
          => Len(favCall'[1].written) = 1]_vars
  /\ [](Len(favCall) = 1 /\ Len(favCall[1].written) = 1
          => /\ favCall[1].written[1] = favorites
             /\ ~favCall[1].thrown => storage = stringify(favorites))

\* a list of two favourites after an addFavorite of an entry it holds, or
\* two favourites that removeFavorite kept and wrote to storage
C30_Witness ==
  /\ Len(favCall) = 1
  /\ Len(favorites) = 2
  /\ storage = stringify(favorites)
  /\ \/ favCall[1].call = "addFavorite" /\ favCall[1].written = <<>>
     \/ favCall[1].call = "removeFavorite" /\ ~favCall[1].thrown

====
